---------------------------- MODULE Spec2Model ----------------------------
(***************************************************************************)
(* Quanta Coin Discord bot: ledger, provably-fair games, deposit           *)
(* reconciler, withdrawals and loans, modelled from src/main.py,           *)
(* src/database.py and src/games.py.                                       *)
(*                                                                         *)
(* Units.  QC amounts are integers in milli-QC (1 QC = 1000).  On-chain    *)
(* amounts are integers in units of 5000 lamports, the fee of one          *)
(* signature, so that one unit is worth 5 milli-QC.  Python floats are     *)
(* modelled by these exact integers; every stake offered to the model is   *)
(* a multiple of 1000 so that the 1% house edge is exact.                  *)
(*                                                                         *)
(* Scheduling.  The bot is one asyncio event loop: code between two        *)
(* awaits runs without interleaving, so each action below is the code of   *)
(* one handler between two consecutive awaits.  Every `with _transaction`  *)
(* block is its own committed SQLite transaction.                          *)
(***************************************************************************)
EXTENDS Integers, Sequences, FiniteSets, TLC

\* ------------------------------------------------------------------ bounds
Users == {"u1", "u2"}
HOUSE == "house"
Accounts == Users \cup {HOUSE}
Loops == {"poll_deposits", "lottery", "sweeper", "airdrop", "loans"}
Sessions == {1, 2}
Stakes == {1000}
AmountInputs == Stakes \cup {0}
PickInputs == {{2, 3, 5, 11, 20, 26}, {1, 2, 3, 6, 10, 38}, {1, 2}}
TargetInputs == {110, 200}
ServerSeeds == {1}
FreshClientSeeds == {1}
ClientSeeds == {1, 2}
PFUser == "u1"
OtherUser == "u2"
MaxRounds == 2
MaxWagered == 2000
DepositInputs == {10}
MaxReceived == 10
MaxCredited == 100
RentExemptMin == 2
MaxSweepErrors == 2
InitUserBalance == 2000
InitHouseBalance == 0

\* the lending scenario: a borrower who has deposited and wagered enough to
\* qualify, and a treasury that can fund the smaller of the two loans asked for
MaxLoans == 2
LoanAmountInputs == {1000, 30000}
DurationInputs == {1}
MaxNow == 2
BorrowerDeposited == 50000
BorrowerWagered == 250000
InitTreasury == 28000
TttWagers == {0 - 1000, 0, 1000}

\* battles: the pots, percentage splits and lobby sizes a host may ask for
PotInputs == {0, 1000, 3000}
RatioInputs == {<<100>>, <<70, 30>>, <<50, 30, 20>>}
MaxPlayersInputs == {1, 20}
Fighters == Users \cup {"u3"}
ArenaPot == 3000
MaxAirdrops == 2
MaxWithdrawals == 2
MaxConfirms == 1
MaxClicks == 2
MaxReady == 2
WithdrawInputs == {0, 1000}
AirdropAmounts == {0, 1000, 2000}
AirdropSeconds == {0, 1}

\* coinflips: a player holding 100 QC who stakes nothing, 50 QC or 150 QC, and
\* what the other player may tip to the house beforehand
CoinUserBalance == 100000
CoinAmounts == {0, 50000, 150000}
CoinTips == {1000, 48000}

\* --------------------------------------------------------- program constants
KENO_POOL_MIN == 1
KENO_POOL_MAX == 40
KENO_DRAWS == 8
KENO_ALLOWED_PICKS == 6
KENO_MIN_WAGER == 5
KENO_MAX_WAGER == 100000000
KENO_HOUSE_EDGE_PCT == 1
LIMBO_HOUSE_EDGE_PCT == 1
HOUSE_EDGE_PCT == 1
LIMBO_WIN_RULE_PCT == 99
LIMBO_VERIFY_RULE_PCT == 98
QC_PER_UNIT == 5
SWEEP_KEEP == 3
MIN_BALANCE_LAMPORTS == 4
MAX_BACKOFF_SEC == 120
BASE_FEE_BUFFER == 4
DEFAULT_FEE == 1
BATTLE_MIN_PLAYERS == 2
AIR_MIN_SECONDS == 1

\* loans (milli-QC, days, percent per week)
LOAN_MIN_QC == 25000
LOAN_MAX_QC == 2500000
LOAN_MIN_DAYS == 1
LOAN_MAX_DAYS == 28
LOAN_BASE_RATE_PCT == 11
LOAN_LOW_RATE_PCT == 7
REQUIRE_DEPOSIT_MIN == 50000
REQUIRE_WAGERED_MIN == 250000
REQUIRE_NETPL_MIN == 0 - 100000
NETPL_BONUS_MAX == 500000
loans_outstanding_cap_qc == 100000000

VARIABLES
    balance,        \* users.balance, per account (milli-QC)
    stats,          \* users.total_wagered / net_profit_loss / total_depo / total_withdraw
    pf,             \* _keno_pf_state, _pf_state (limbo), _coin_pf_state: game -> user -> commitment
    hashShown,      \* server hashes that have been sent to the user in a message
    seedShown,      \* server seeds that have been sent to the user in a message
    rounds,         \* log of the outcomes derived so far (history)
    keno,           \* the running keno_cmd coroutines, by session slot
    limbo,          \* the LimboView objects created by limbo_cmd, by session slot
    verifyOut,      \* what the last *_verify command sent to the user
    last_play,      \* _last_keno_play and _last_coinflip: game -> user -> the last play
    onchain,        \* lamports at each user's deposit address (the chain)
    sol_balance,    \* users.sol_balance, the last observed on-chain balance
    poll,           \* the poll_deposits task: position, its rows, the nested sweep
    drain,          \* the _drain_one coroutine of each address
    sweep_errors,   \* _sweep_errors
    sweep_backoff,  \* _sweep_backoff: the time from which the next sweep is allowed
    received,       \* lamports ever deposited to each address by its user (history)
    creditedDep,    \* QC ever credited by poll_deposits to each user (history)
    quietCycles,    \* poll cycles started since the last deposit arrived or the
                    \* last failure inside a cycle, counted up to 2 (history)
    withdrawals,    \* the rows of the withdrawals log, in id order
    wexec,          \* how many _execute_withdraw coroutines of each row await the RPC
    chain_sent,     \* QC worth of SOL sent on-chain to each user's destination (history)
    tasks,          \* how many tasks of each background loop have been created
    loans,          \* the rows of the loans table, in id order
    loans_paused,   \* loans_meta["loans_paused"]
    loan_banned,    \* users.loan_banned
    ttt,            \* the TicTacToeView on screen and its TicTacToe game
    now,            \* time.time(), in the unit of the durations of the specification
                    \* at hand: days for loans, seconds for battles, lotteries, airdrops
    overdue,        \* the _loans_overdue_loop task: position and the rows it fetched
    apply_reply,    \* what the last loan_apply_cmd answered
    battle,         \* the row of the battles table and its battle_participants
    fin,            \* the running finalize_battle coroutines: the one of the timer
                    \* of battle_create and the one of battle_start
    battle_settlements, \* refunds and prize distributions made for the battle (history)
    lottery,        \* the latest row of the lottery table and its lottery_entries
    lotloop,        \* the _lottery_settlement_loop task: position and chosen winner
    lot_staked,     \* stakes debited from users for the latest lottery (history)
    lot_paid,       \* what settlement credited to the winner of that lottery (history)
    airdrops,       \* the rows of the airdrop table, each with its airdrop_claims
    airloop         \* the _airdrop_loop task: position, the rows it fetched, its clock reading

pollVars == <<onchain, sol_balance, poll, drain, sweep_errors, sweep_backoff, received, creditedDep, quietCycles>>

withdrawVars == <<withdrawals, wexec, chain_sent>>

depVars == <<pollVars, withdrawVars, tasks>>

pfVars == <<pf, hashShown, seedShown, rounds, keno, limbo, verifyOut, last_play>>

\* the variables the game handlers never touch
battleVars == <<battle, fin, battle_settlements>>

lotteryVars == <<lottery, lotloop, lot_staked, lot_paid>>

airdropVars == <<airdrops, airloop>>

poolVars == <<battleVars, lotteryVars, airdropVars>>

\* what neither the lending commands nor TicTacToe touch
clockVars == <<now, overdue, apply_reply>>

socialVars == <<loans, loans_paused, loan_banned, ttt, clockVars, poolVars>>

notGameVars == <<depVars, socialVars>>

vars == <<balance, stats, pfVars, notGameVars>>

Games == {"keno", "limbo", "coinflip"}

\* ------------------------------------------------------------ ledger helpers
update_balance(bal, uid, delta) == [bal EXCEPT ![uid] = @ + delta]

update_stats(st, uid, field, v) == [st EXCEPT ![uid][field] = @ + v]

\* bound on the stakes one account escrows in a behaviour
MayWager(st, uid) == st[uid].total_wagered < MaxWagered

NoStats == [total_wagered |-> 0, net_profit_loss |-> 0, total_depo |-> 0, total_withdraw |-> 0]

\* ---------------------------------------------------------------- PF helpers
NoPF == [server_seed |-> 0, server_hash |-> 0, client_seed |-> 0, nonce |-> 0]

\* hashlib.sha256(server_seed).hexdigest(): one-way, injective on the seeds used
sha256(server_seed) == server_seed * 2 + 100

pf_new_commitment(server_seed, client_seed) ==
    [server_seed |-> server_seed, server_hash |-> sha256(server_seed),
     client_seed |-> client_seed, nonce |-> 0]

\* state_dict.get(user_id) or _pf_new_commitment(...): ss, cs are the fresh random seeds
pf_get_or_create(st, ss, cs) == IF st = NoPF THEN pf_new_commitment(ss, cs) ELSE st

\* a variant that draws a new server seed when the client seed is set
pf_set_client_seed_regen(st, client_seed) == pf_new_commitment(st.server_seed + 1, client_seed)

pf_set_client_seed(st, client_seed) == [st EXCEPT !.client_seed = client_seed, !.nonce = 0]

\* HMAC-SHA256(server_seed, message) as a fixed pseudo-random function of the
\* key and of the fields of the message f"{client_seed}:{nonce}[:{chunk}]"
hmac_hex(server_seed, client_seed, nonce, chunk) ==
    (server_seed * 401 + client_seed * 233 + nonce * 97 + chunk * 53
       + server_seed * client_seed * 13 + nonce * nonce * 31) % 997

\* int(h[:13], 16)
pf_hmac_int(server_seed, client_seed, nonce) == hmac_hex(server_seed, client_seed, nonce, 0)

\* int(digest_hex[i:i+8], 16) for the i-th 8-hex-digit part of the digest
digest_part(digest, i) == (digest * (2 * i + 3) + i * i * 5 + 1) % 997

\* ---------------------------------------------------------------------- keno
RECURSIVE keno_draw_loop(_, _, _, _, _, _)
\* the while/for loops of keno_generate_draw: chunk after chunk, 8 parts a chunk
keno_draw_loop(server_seed, client_seed, nonce, chunk_index, i, draw) ==
    IF Cardinality(draw) >= KENO_DRAWS THEN draw
    ELSE IF i >= 8 THEN keno_draw_loop(server_seed, client_seed, nonce, chunk_index + 1, 0, draw)
    ELSE LET val == digest_part(hmac_hex(server_seed, client_seed, nonce, chunk_index), i)
             rng_num == (val % (KENO_POOL_MAX - KENO_POOL_MIN + 1)) + KENO_POOL_MIN
         IN keno_draw_loop(server_seed, client_seed, nonce, chunk_index, i + 1, draw \cup {rng_num})

\* keno_generate_draw: (draw_set, nonce_used); the caller stores nonce + 1
keno_generate_draw(st) ==
    [draw |-> keno_draw_loop(st.server_seed, st.client_seed, st.nonce, 0, 0, {}),
     nonce |-> st.nonce]

\* KENO_PAYOUTS_6, multipliers times 10
KENO_PAYOUTS_6 == [m \in 0..6 |-> CASE m = 2 -> 12 [] m = 3 -> 25 [] m = 4 -> 100
                                    [] m = 5 -> 1000 [] m = 6 -> 8000 [] OTHER -> 0]

calc_multiplier(matches) == IF matches \in DOMAIN KENO_PAYOUTS_6 THEN KENO_PAYOUTS_6[matches] ELSE 0

\* payout = wager * mult * (1.0 - KENO_HOUSE_EDGE)
keno_payout(wager, mult10) == (wager * mult10 * (100 - KENO_HOUSE_EDGE_PCT)) \div 1000

validate_picks(nums) ==
    /\ Cardinality(nums) = KENO_ALLOWED_PICKS
    /\ \A n \in nums : KENO_POOL_MIN <= n /\ n <= KENO_POOL_MAX

RECURSIVE keno_verify_loop(_, _, _, _, _, _)
\* the copy of the draw loop inside keno_verify_cmd
keno_verify_loop(use_server_seed, use_client_seed, use_nonce, chunk_index, i, draw) ==
    IF Cardinality(draw) >= KENO_DRAWS THEN draw
    ELSE IF i >= 8
         THEN keno_verify_loop(use_server_seed, use_client_seed, use_nonce, chunk_index + 1, 0, draw)
    ELSE LET val == digest_part(hmac_hex(use_server_seed, use_client_seed, use_nonce, chunk_index), i)
             rng_num == (val % (KENO_POOL_MAX - KENO_POOL_MIN + 1)) + KENO_POOL_MIN
         IN keno_verify_loop(use_server_seed, use_client_seed, use_nonce, chunk_index, i + 1,
                             draw \cup {rng_num})

\* --------------------------------------------------------------------- limbo
\* limbo_generate_rng: n / 2^52 in [0,1), here in thousandths
limbo_generate_rng(st) == pf_hmac_int(st.server_seed, st.client_seed, st.nonce)

\* win = rng <= 0.99 / target   (target in hundredths)
limbo_win(rng, target) == rng * target <= LIMBO_WIN_RULE_PCT * 1000

\* limbo_payout_amount
limbo_payout_amount(wager, target, win) ==
    IF win THEN (wager * target * (100 - LIMBO_HOUSE_EDGE_PCT)) \div 10000 ELSE 0

\* the rule limbo_verify_cmd tells the user to apply: RNG <= 0.98 / target
limbo_verify_rule(rng, target) == rng * target <= LIMBO_VERIFY_RULE_PCT * 1000

\* ------------------------------------------------------------------ coinflip
coin_result(rng) == IF rng % 2 = 0 THEN "heads" ELSE "tails"

\* a variant that pays even money without the house edge
coin_payout_noedge(amount, win) == IF win THEN amount * 2 ELSE 0

coin_payout(amount, win) == IF win THEN (amount * 2 * (100 - HOUSE_EDGE_PCT)) \div 100 ELSE 0

\* _ensure_funds_or_refund: the balances after the call, and its return value
ensure_funds_or_refund(bal, user_id, wager, needed) ==
    IF bal[HOUSE] < needed
    THEN [ok |-> FALSE, bal |-> update_balance(update_balance(bal, user_id, wager), HOUSE, -wager)]
    ELSE [ok |-> TRUE, bal |-> bal]

\* ------------------------------------------------------------- initial state
NoKeno == [pc |-> "idle", user |-> "none", u_balance |-> 0, wager |-> 0]

NoLimbo == [pc |-> "idle", user |-> "none", wager |-> 0, selected_target |-> 0]

\* no entry in _last_keno_play / _last_coinflip
NoPlay == [wager |-> 0, picks |-> {}, choice |-> "none"]

NoVerify == [game |-> "none", server_seed |-> 0, client_seed |-> 0, nonce |-> 0,
             draw |-> {}, rng |-> 0, result |-> "none"]

UserOrder == <<"u1", "u2">>

NoPoll == [pc |-> "sleep", rows |-> [u \in Users |-> 0], idx |-> 1, sidx |-> 1, lamports |-> 0]

NoDrain == [pc |-> "idle", send_lamports |-> 0]

InitDeposits ==
    /\ onchain = [u \in Users |-> 0]
    /\ sol_balance = [u \in Users |-> 0]
    /\ poll = NoPoll
    /\ drain = [u \in Users |-> NoDrain]
    /\ sweep_errors = [u \in Users |-> 0]
    /\ sweep_backoff = [u \in Users |-> 0]
    /\ received = [u \in Users |-> 0]
    /\ creditedDep = [u \in Users |-> 0]
    /\ quietCycles = 0
    /\ withdrawals = <<>>
    /\ wexec = [wid \in 1..MaxWithdrawals |-> 0]
    /\ chain_sent = [u \in Users |-> 0]
    /\ tasks = [l \in Loops |-> 0]

\* a TicTacToe object as __init__ leaves it, and no view on screen
EmptyBoard == [i \in 0..8 |-> " "]

NoTTT == [open |-> FALSE, player1_id |-> "none", player2_id |-> "none", board |-> EmptyBoard,
          turn |-> "none", winner |-> "none", game_over |-> FALSE, wager |-> 0]

NoOverdue == [pc |-> "sleep", rows |-> <<>>]

NoReply == [user |-> "none", text |-> "none"]

NoBattle == [status |-> "none", host_id |-> "none", pot_qc |-> 0, ratio |-> <<>>,
             max_players |-> 0, players |-> <<>>]

Finalizers == {"timer", "start"}

NoFinalize == [pc |-> "idle", players |-> <<>>]

InitBattle ==
    /\ battle = NoBattle
    /\ fin = [k \in Finalizers |-> NoFinalize]
    /\ battle_settlements = 0

NoLottery == [status |-> "none", entry_cost |-> 0, pot |-> 0, ends_at |-> 0,
              entries |-> <<>>, winner_id |-> "none"]

NoLotLoop == [pc |-> "sleep", winner_id |-> "none"]

InitLottery ==
    /\ lottery = NoLottery
    /\ lotloop = NoLotLoop
    /\ lot_staked = 0
    /\ lot_paid = 0

NoAirLoop == [pc |-> "sleep", rows |-> <<>>, now |-> 0]

InitAirdrop ==
    /\ airdrops = <<>>
    /\ airloop = NoAirLoop

InitPools ==
    /\ InitBattle
    /\ InitLottery
    /\ InitAirdrop

InitSocial ==
    /\ loans = <<>>
    /\ loans_paused = FALSE
    /\ loan_banned = [u \in Users |-> FALSE]
    /\ ttt = NoTTT
    /\ now = 0
    /\ overdue = NoOverdue
    /\ apply_reply = NoReply
    /\ InitPools

InitLedger ==
    /\ balance = [a \in Accounts |-> IF a = HOUSE THEN InitHouseBalance ELSE InitUserBalance]
    /\ stats = [a \in Accounts |-> NoStats]

InitGames ==
    /\ pf = [g \in Games |-> [u \in Users |-> NoPF]]
    /\ hashShown = [g \in Games |-> [u \in Users |-> FALSE]]
    /\ seedShown = [g \in Games |-> [u \in Users |-> FALSE]]
    /\ rounds = <<>>
    /\ keno = [s \in Sessions |-> NoKeno]
    /\ limbo = [s \in Sessions |-> NoLimbo]
    /\ verifyOut = NoVerify
    /\ last_play = [g \in {"keno", "coinflip"} |-> [u \in Users |-> NoPlay]]

Init == InitLedger /\ InitGames /\ InitDeposits /\ InitSocial

\* one entry of the history of derived outcomes
Round(game, user, st, shown, settled, win, draw, rng, target, result) ==
    [game |-> game, user |-> user, server_seed |-> st.server_seed,
     client_seed |-> st.client_seed, nonce |-> st.nonce, hash_before |-> shown,
     settled |-> settled, win |-> win, draw |-> draw, rng |-> rng, target |-> target,
     result |-> result]

\* ------------------------------------------------------------------ tip_cmd
Tip(sender, recipient, amount) ==
    /\ sender # recipient
    /\ IF amount <= 0 \/ balance[sender] < amount
       THEN UNCHANGED balance
       ELSE balance' = update_balance(update_balance(balance, sender, -amount), recipient, amount)
    /\ UNCHANGED <<stats, pf, hashShown, seedShown, rounds, keno, limbo, verifyOut, last_play, notGameVars>>

\* -------------------------------------------------------------- coinflip_cmd
Coinflip(user, amount, choice, ss, cs) ==
    /\ Len(rounds) < MaxRounds
    /\ IF balance[user] < amount \/ amount <= 0 THEN UNCHANGED vars
       ELSE
        LET escrowed == update_balance(update_balance(balance, user, -amount), HOUSE, amount)
            wagered == update_stats(stats, user, "total_wagered", amount)
            st == pf_get_or_create(pf["coinflip"][user], ss, cs)
            rng == pf_hmac_int(st.server_seed, st.client_seed, st.nonce)
            result == coin_result(rng)
            win == (choice = result)
            payout == coin_payout(amount, win)
            funds == ensure_funds_or_refund(escrowed, user, amount, payout)
        IN /\ MayWager(stats, user)
           /\ pf' = [pf EXCEPT !["coinflip"][user] = [st EXCEPT !.nonce = @ + 1]]
           /\ IF win /\ payout > 0
              THEN IF ~funds.ok
                   THEN /\ balance' = funds.bal
                        /\ stats' = wagered
                        /\ rounds' = Append(rounds, Round("coinflip", user, st,
                                        hashShown["coinflip"][user], FALSE, win, {}, rng, 0, result))
                        /\ UNCHANGED <<hashShown, last_play>>
                   ELSE /\ balance' = update_balance(update_balance(escrowed, user, payout), HOUSE, -payout)
                        /\ stats' = update_stats(wagered, user, "net_profit_loss", payout - amount)
                        /\ rounds' = Append(rounds, Round("coinflip", user, st,
                                        hashShown["coinflip"][user], TRUE, win, {}, rng, 0, result))
                        /\ hashShown' = [hashShown EXCEPT !["coinflip"][user] = TRUE]
                        /\ last_play' = [last_play EXCEPT !["coinflip"][user] =
                                            [NoPlay EXCEPT !.wager = amount, !.choice = choice]]
              ELSE /\ balance' = escrowed
                   /\ stats' = update_stats(wagered, user, "net_profit_loss", -amount)
                   /\ rounds' = Append(rounds, Round("coinflip", user, st,
                                   hashShown["coinflip"][user], TRUE, win, {}, rng, 0, result))
                   /\ hashShown' = [hashShown EXCEPT !["coinflip"][user] = TRUE]
                   /\ last_play' = [last_play EXCEPT !["coinflip"][user] =
                                       [NoPlay EXCEPT !.wager = amount, !.choice = choice]]
           /\ UNCHANGED <<seedShown, keno, limbo, verifyOut, notGameVars>>

\* coinflip_reroll_cmd: coinflip_cmd with the amount and choice of the last flip
CoinflipReroll(user, ss, cs) ==
    LET last == last_play["coinflip"][user]
    IN IF last = NoPlay THEN UNCHANGED vars
       ELSE Coinflip(user, last.wager, last.choice, ss, cs)

\* coinflip_verify_cmd with the server seed, client seed and nonce of a logged round
CoinflipVerify(server_seed, client_seed, nonce) ==
    /\ LET rng == pf_hmac_int(server_seed, client_seed, nonce)
       IN verifyOut' = [game |-> "coinflip", server_seed |-> server_seed,
                        client_seed |-> client_seed, nonce |-> nonce,
                        draw |-> {}, rng |-> 0, result |-> coin_result(rng)]
    /\ UNCHANGED <<balance, stats, pf, hashShown, seedShown, rounds, keno, limbo, last_play, notGameVars>>

\* ------------------------------------------------------------------ keno_cmd
\* up to the first await: fetch_user, keno_pf_get_or_create, "Amount of QC?"
KenoCmd(s, user, ss, cs) ==
    /\ keno[s].pc = "idle"
    /\ keno' = [keno EXCEPT ![s] = [pc |-> "await_amount", user |-> user,
                                    u_balance |-> balance[user], wager |-> 0]]
    /\ pf' = [pf EXCEPT !["keno"][user] = pf_get_or_create(@, ss, cs)]
    /\ UNCHANGED <<balance, stats, hashShown, seedShown, rounds, limbo, verifyOut, last_play, notGameVars>>

\* the amount message arrives: the checks use the row fetched by KenoCmd
KenoAmount(s, wager) ==
    /\ keno[s].pc = "await_amount"
    /\ IF wager < KENO_MIN_WAGER \/ wager > KENO_MAX_WAGER \/ keno[s].u_balance < wager
       THEN /\ keno' = [keno EXCEPT ![s] = NoKeno]
            /\ UNCHANGED <<balance, stats>>
       ELSE /\ MayWager(stats, keno[s].user)
            /\ balance' = update_balance(update_balance(balance, keno[s].user, -wager), HOUSE, wager)
            /\ stats' = update_stats(stats, keno[s].user, "total_wagered", wager)
            /\ keno' = [keno EXCEPT ![s].pc = "await_picks", ![s].wager = wager]
    /\ UNCHANGED <<pf, hashShown, seedShown, rounds, limbo, verifyOut, last_play, notGameVars>>

\* asyncio.TimeoutError while waiting for the amount
KenoAmountTimeout(s) ==
    /\ keno[s].pc = "await_amount"
    /\ keno' = [keno EXCEPT ![s] = NoKeno]
    /\ UNCHANGED <<balance, stats, pf, hashShown, seedShown, rounds, limbo, verifyOut, last_play, notGameVars>>

\* a variant of the timeout below that abandons the flow without the refund
KenoPicksTimeoutNoRefund(s) ==
    /\ keno[s].pc = "await_picks"
    /\ keno' = [keno EXCEPT ![s] = NoKeno]
    /\ UNCHANGED <<balance, stats, pf, hashShown, seedShown, rounds, limbo, verifyOut, last_play, notGameVars>>

\* asyncio.TimeoutError while waiting for the picks: refund
KenoPicksTimeout(s) ==
    /\ keno[s].pc = "await_picks"
    /\ balance' = update_balance(update_balance(balance, keno[s].user, keno[s].wager),
                                 HOUSE, -keno[s].wager)
    /\ keno' = [keno EXCEPT ![s] = NoKeno]
    /\ UNCHANGED <<stats, pf, hashShown, seedShown, rounds, limbo, verifyOut, last_play, notGameVars>>

\* the picks message arrives: validation, draw, payout logic, result embed
KenoPicks(s, picks) ==
    /\ keno[s].pc = "await_picks"
    /\ IF ~validate_picks(picks) THEN UNCHANGED vars
       ELSE
        LET user == keno[s].user
            wager == keno[s].wager
            st == pf["keno"][user]
            d == keno_generate_draw(st)
            matches == Cardinality(d.draw \cap picks)
            payout == keno_payout(wager, calc_multiplier(matches))
            cannot_pay == payout > 0 /\ payout > balance[HOUSE]
        IN /\ Len(rounds) < MaxRounds
           /\ pf' = [pf EXCEPT !["keno"][user].nonce = @ + 1]
           /\ rounds' = Append(rounds, Round("keno", user, st, hashShown["keno"][user],
                                             ~cannot_pay, payout > 0, d.draw, 0, 0, "none"))
           /\ IF cannot_pay
              THEN /\ keno' = [keno EXCEPT ![s].pc = "refund_notice"]
                   /\ UNCHANGED <<balance, stats, hashShown, seedShown, last_play>>
              ELSE /\ balance' = update_balance(update_balance(balance, user, payout), HOUSE, -payout)
                   /\ stats' = update_stats(stats, user, "net_profit_loss", payout - wager)
                   /\ hashShown' = [hashShown EXCEPT !["keno"][user] = TRUE]
                   /\ seedShown' = [seedShown EXCEPT !["keno"][user] = TRUE]
                   /\ keno' = [keno EXCEPT ![s] = NoKeno]
                   /\ last_play' = [last_play EXCEPT !["keno"][user] =
                                       [NoPlay EXCEPT !.wager = wager, !.picks = picks]]
           /\ UNCHANGED <<limbo, verifyOut, notGameVars>>

\* "Not enough bot balance" has been sent: refund the wager (cancel round)
KenoRefund(s) ==
    /\ keno[s].pc = "refund_notice"
    /\ balance' = update_balance(update_balance(balance, keno[s].user, keno[s].wager),
                                 HOUSE, -keno[s].wager)
    /\ keno' = [keno EXCEPT ![s] = NoKeno]
    /\ UNCHANGED <<stats, pf, hashShown, seedShown, rounds, limbo, verifyOut, last_play, notGameVars>>

\* ctx.send of the notice raises (HTTPException): the coroutine ends before the refund
KenoRefundNoticeFails(s) ==
    /\ keno[s].pc = "refund_notice"
    /\ keno' = [keno EXCEPT ![s] = NoKeno]
    /\ UNCHANGED <<balance, stats, pf, hashShown, seedShown, rounds, limbo, verifyOut, last_play, notGameVars>>

\* keno_reroll_cmd, in the conversation slot s: the last wager and picks are
\* staked again and drawn with the next nonce; when the house cannot pay, the
\* command awaits its notice and then refunds, as keno_cmd does
KenoReroll(s, user, ss, cs) ==
    /\ keno[s].pc = "idle"
    /\ LET last == last_play["keno"][user]
           wager == last.wager
           escrowed == update_balance(update_balance(balance, user, -wager), HOUSE, wager)
           st == pf_get_or_create(pf["keno"][user], ss, cs)
           d == keno_generate_draw(st)
           matches == Cardinality(d.draw \cap last.picks)
           payout == keno_payout(wager, calc_multiplier(matches))
           cannot_pay == payout > 0 /\ payout > escrowed[HOUSE]
       IN IF last = NoPlay \/ balance[user] < wager THEN UNCHANGED vars
          ELSE /\ Len(rounds) < MaxRounds
               /\ MayWager(stats, user)
               /\ pf' = [pf EXCEPT !["keno"][user] = [st EXCEPT !.nonce = @ + 1]]
               /\ rounds' = Append(rounds, Round("keno", user, st, hashShown["keno"][user],
                                                 ~cannot_pay, payout > 0, d.draw, 0, 0, "none"))
               /\ IF cannot_pay
                  THEN /\ balance' = escrowed
                       /\ stats' = update_stats(stats, user, "total_wagered", wager)
                       /\ keno' = [keno EXCEPT ![s] = [pc |-> "refund_notice", user |-> user,
                                                       u_balance |-> balance[user],
                                                       wager |-> wager]]
                       /\ UNCHANGED <<hashShown, seedShown>>
                  ELSE /\ balance' = update_balance(update_balance(escrowed, user, payout),
                                                    HOUSE, -payout)
                       /\ stats' = update_stats(update_stats(stats, user, "total_wagered", wager),
                                                user, "net_profit_loss", payout - wager)
                       /\ hashShown' = [hashShown EXCEPT !["keno"][user] = TRUE]
                       /\ seedShown' = [seedShown EXCEPT !["keno"][user] = TRUE]
                       /\ UNCHANGED keno
               /\ UNCHANGED <<limbo, verifyOut, last_play, notGameVars>>

\* keno_seed_cmd
KenoSeed(user, client_seed, ss, cs) ==
    /\ pf' = [pf EXCEPT !["keno"][user] = pf_set_client_seed(pf_get_or_create(@, ss, cs), client_seed)]
    /\ hashShown' = [hashShown EXCEPT !["keno"][user] = TRUE]
    /\ UNCHANGED <<balance, stats, seedShown, rounds, keno, limbo, verifyOut, last_play, notGameVars>>

\* keno_verify_cmd without arguments: the current state, nonce - 1
KenoVerifyLast(user) ==
    /\ IF pf["keno"][user] = NoPF THEN UNCHANGED verifyOut
       ELSE LET st == pf["keno"][user]
                use_nonce == IF st.nonce - 1 > 0 THEN st.nonce - 1 ELSE 0
            IN verifyOut' = [game |-> "keno", server_seed |-> st.server_seed,
                             client_seed |-> st.client_seed, nonce |-> use_nonce,
                             draw |-> keno_verify_loop(st.server_seed, st.client_seed, use_nonce, 0, 0, {}),
                             rng |-> 0, result |-> "none"]
    /\ UNCHANGED <<balance, stats, pf, hashShown, seedShown, rounds, keno, limbo, last_play, notGameVars>>

\* keno_verify_cmd <server_seed> <client_seed> <nonce>
KenoVerify(server_seed, client_seed, nonce) ==
    /\ verifyOut' = [game |-> "keno", server_seed |-> server_seed,
                     client_seed |-> client_seed, nonce |-> nonce,
                     draw |-> keno_verify_loop(server_seed, client_seed, nonce, 0, 0, {}),
                     rng |-> 0, result |-> "none"]
    /\ UNCHANGED <<balance, stats, pf, hashShown, seedShown, rounds, keno, limbo, last_play, notGameVars>>

\* ----------------------------------------------------------------- limbo_cmd
LimboCmd(s, user, amount, ss, cs) ==
    /\ limbo[s].pc = "idle"
    /\ IF amount <= 0 \/ balance[user] < amount THEN UNCHANGED vars
       ELSE /\ pf' = [pf EXCEPT !["limbo"][user] = pf_get_or_create(@, ss, cs)]
            /\ hashShown' = [hashShown EXCEPT !["limbo"][user] = TRUE]
            /\ limbo' = [limbo EXCEPT ![s] = [pc |-> "open", user |-> user, wager |-> amount,
                                              selected_target |-> 0]]
            /\ UNCHANGED <<balance, stats, seedShown, rounds, keno, verifyOut, last_play, notGameVars>>

\* LimboMultiplierSelect.callback / LimboCustomMultiplierModal.on_submit
LimboSelect(s, target) ==
    /\ limbo[s].pc = "open"
    /\ limbo' = [limbo EXCEPT ![s].selected_target = target]
    /\ UNCHANGED <<balance, stats, pf, hashShown, seedShown, rounds, keno, verifyOut, last_play, notGameVars>>

\* LimboRollButton.callback.  The handler awaits only when it answers, so the
\* _limbo_active_sessions guard never rejects a roll that starts before or
\* after this step.
LimboRoll(s) ==
    /\ limbo[s].pc = "open"
    /\ LET user == limbo[s].user
           wager == limbo[s].wager
           target == limbo[s].selected_target
           escrowed == update_balance(update_balance(balance, user, -wager), HOUSE, wager)
           st == pf["limbo"][user]
           rng == limbo_generate_rng(st)
           win == limbo_win(rng, target)
           payout == limbo_payout_amount(wager, target, win)
       IN IF target = 0 \/ balance[user] < wager THEN UNCHANGED vars
          ELSE IF limbo_payout_amount(wager, target, TRUE) > escrowed[HOUSE]
          THEN \* refunded at once; only total_wagered keeps the attempt
               /\ MayWager(stats, user)
               /\ stats' = update_stats(stats, user, "total_wagered", wager)
               /\ UNCHANGED <<balance, pf, hashShown, seedShown, rounds, keno, limbo,
                              verifyOut, last_play, notGameVars>>
          ELSE /\ Len(rounds) < MaxRounds
               /\ MayWager(stats, user)
               /\ balance' = update_balance(update_balance(escrowed, user, payout), HOUSE, -payout)
               /\ stats' = update_stats(update_stats(stats, user, "total_wagered", wager),
                                        user, "net_profit_loss", payout - wager)
               /\ pf' = [pf EXCEPT !["limbo"][user].nonce = @ + 1]
               /\ rounds' = Append(rounds, Round("limbo", user, st, hashShown["limbo"][user],
                                                 TRUE, win, {}, rng, target, "none"))
               /\ hashShown' = [hashShown EXCEPT !["limbo"][user] = TRUE]
               /\ seedShown' = [seedShown EXCEPT !["limbo"][user] = TRUE]
               /\ limbo' = [limbo EXCEPT ![s] = NoLimbo]
               /\ UNCHANGED <<keno, verifyOut, last_play, notGameVars>>

\* LimboView.on_timeout
LimboTimeout(s) ==
    /\ limbo[s].pc = "open"
    /\ limbo' = [limbo EXCEPT ![s] = NoLimbo]
    /\ UNCHANGED <<balance, stats, pf, hashShown, seedShown, rounds, keno, verifyOut, last_play, notGameVars>>

\* limbo_seed_cmd
LimboSeed(user, client_seed, ss, cs) ==
    /\ pf' = [pf EXCEPT !["limbo"][user] = pf_set_client_seed(pf_get_or_create(@, ss, cs), client_seed)]
    /\ hashShown' = [hashShown EXCEPT !["limbo"][user] = TRUE]
    /\ UNCHANGED <<balance, stats, seedShown, rounds, keno, limbo, verifyOut, last_play, notGameVars>>

\* limbo_verify_cmd: the three answers, then the RNG and the rule it prints
LimboVerify(server_seed, client_seed, nonce) ==
    /\ verifyOut' = [game |-> "limbo", server_seed |-> server_seed,
                     client_seed |-> client_seed, nonce |-> nonce, draw |-> {},
                     rng |-> pf_hmac_int(server_seed, client_seed, nonce), result |-> "none"]
    /\ UNCHANGED <<balance, stats, pf, hashShown, seedShown, rounds, keno, limbo, last_play, notGameVars>>

Max(a, b) == IF a >= b THEN a ELSE b

Min(a, b) == IF a <= b THEN a ELSE b

\* ------------------------------------------------------------ the chain
\* a user sends lamports to the deposit address
ChainDeposit(u, d) ==
    /\ received[u] + d <= MaxReceived
    /\ onchain' = [onchain EXCEPT ![u] = @ + d]
    /\ received' = [received EXCEPT ![u] = @ + d]
    /\ quietCycles' = 0
    /\ UNCHANGED <<balance, stats, pfVars, socialVars, withdrawVars, tasks, sol_balance, poll, drain, sweep_errors, sweep_backoff, creditedDep>>

\* --------------------------------------------------------------- poll_deposits
\* top of the while loop: the SELECT of (user_id, sol_address, sol_balance)
PollFetchRows ==
    /\ poll.pc = "sleep"
    /\ poll' = [poll EXCEPT !.pc = "rows", !.rows = sol_balance, !.idx = 1]
    /\ quietCycles' = IF quietCycles < 2 THEN quietCycles + 1 ELSE 2
    /\ UNCHANGED <<balance, stats, pfVars, socialVars, withdrawVars, tasks, onchain, sol_balance, drain, sweep_errors, sweep_backoff,
                   received, creditedDep>>

\* the SELECT raises an sqlite3.OperationalError other than the missing
\* column: the except clause re-raises it and the exception leaves the
\* coroutine, so the task created in on_ready is finished
PollFetchRowsFails ==
    /\ poll.pc = "sleep"
    /\ poll' = [poll EXCEPT !.pc = "dead"]
    /\ UNCHANGED <<balance, stats, pfVars, socialVars, withdrawVars, tasks, onchain, sol_balance, drain, sweep_errors, sweep_backoff,
                   received, creditedDep, quietCycles>>

\* the poller after the row at idx: the next row, or asyncio.sleep(5)
poll_next_row(p) ==
    IF p.idx + 1 > Len(UserOrder) THEN [p EXCEPT !.pc = "sleep", !.idx = 1]
    ELSE [p EXCEPT !.pc = "rows", !.idx = @ + 1]

\* get_balance answers for the row at idx; a larger balance than the row's
\* sol_balance is credited, the snapshot advanced, and the sweep begun
PollRow ==
    /\ poll.pc = "rows"
    /\ LET uid == UserOrder[poll.idx]
           sol == onchain[uid]
           old_balance == poll.rows[uid]
           qc_amount == (sol - old_balance) * QC_PER_UNIT
       IN IF sol > old_balance
          THEN /\ creditedDep[uid] < MaxCredited
               /\ balance' = update_balance(balance, uid, qc_amount)
               /\ stats' = update_stats(stats, uid, "total_depo", qc_amount)
               /\ sol_balance' = [sol_balance EXCEPT ![uid] = sol]
               /\ creditedDep' = [creditedDep EXCEPT ![uid] = @ + qc_amount]
               /\ poll' = [poll EXCEPT !.pc = "sweep_get_balance", !.sidx = 1]
          ELSE /\ poll' = poll_next_row(poll)
               /\ UNCHANGED <<balance, stats, sol_balance, creditedDep>>
    /\ UNCHANGED <<pfVars, socialVars, withdrawVars, tasks, onchain, drain, sweep_errors, sweep_backoff, received, quietCycles>>

\* get_balance raises: "Error polling", next row
PollRowRpcFails ==
    /\ poll.pc = "rows"
    /\ poll' = poll_next_row(poll)
    /\ quietCycles' = 0
    /\ UNCHANGED <<balance, stats, pfVars, socialVars, withdrawVars, tasks, onchain, sol_balance, drain, sweep_errors, sweep_backoff,
                   received, creditedDep>>

\* update_balance has committed and the next statement raises: the row's
\* except clause logs it and the loop goes on with the snapshot not written
PollRowFailsAfterCredit ==
    /\ poll.pc = "rows"
    /\ LET uid == UserOrder[poll.idx]
           sol == onchain[uid]
           old_balance == poll.rows[uid]
           qc_amount == (sol - old_balance) * QC_PER_UNIT
       IN /\ sol > old_balance
          /\ creditedDep[uid] < MaxCredited
          /\ balance' = update_balance(balance, uid, qc_amount)
          /\ creditedDep' = [creditedDep EXCEPT ![uid] = @ + qc_amount]
          /\ poll' = poll_next_row(poll)
    /\ quietCycles' = 0
    /\ UNCHANGED <<stats, pfVars, socialVars, withdrawVars, tasks, onchain, sol_balance, drain, sweep_errors, sweep_backoff, received>>

\* -------------------------------------------------------------- sweep_deposits
\* the sweep after the address at sidx: the next address, or back in the poller
sweep_next(p) ==
    IF p.sidx + 1 > Len(UserOrder) THEN poll_next_row([p EXCEPT !.sidx = 1, !.lamports = 0])
    ELSE [p EXCEPT !.pc = "sweep_get_balance", !.sidx = @ + 1, !.lamports = 0]

\* get_balance answers for the address at sidx
SweepGetBalance ==
    /\ poll.pc = "sweep_get_balance"
    /\ LET lamports == onchain[UserOrder[poll.sidx]]
       IN poll' = IF lamports <= SWEEP_KEEP THEN sweep_next(poll)
                  ELSE [poll EXCEPT !.pc = "sweep_send", !.lamports = lamports]
    /\ UNCHANGED <<balance, stats, pfVars, socialVars, withdrawVars, tasks, onchain, sol_balance, drain, sweep_errors, sweep_backoff,
                   received, creditedDep, quietCycles>>

\* send_raw_transaction returns a signature and the transfer lands, the payer
\* paying the signature fee; the snapshot is set to 0.0
SweepSend ==
    /\ poll.pc = "sweep_send"
    /\ LET uid == UserOrder[poll.sidx]
           send_lamports == poll.lamports - SWEEP_KEEP
       IN /\ onchain[uid] >= send_lamports + DEFAULT_FEE
          /\ onchain' = [onchain EXCEPT ![uid] = @ - (send_lamports + DEFAULT_FEE)]
          /\ sol_balance' = [sol_balance EXCEPT ![uid] = 0]
    /\ poll' = sweep_next(poll)
    /\ UNCHANGED <<balance, stats, pfVars, socialVars, withdrawVars, tasks, drain, sweep_errors, sweep_backoff, received, creditedDep, quietCycles>>

\* send_raw_transaction raises: "Sweep failed", next address
SweepSendFails ==
    /\ poll.pc = "sweep_send"
    /\ poll' = sweep_next(poll)
    /\ UNCHANGED <<balance, stats, pfVars, socialVars, withdrawVars, tasks, onchain, sol_balance, drain, sweep_errors, sweep_backoff,
                   received, creditedDep, quietCycles>>

\* ------------------------------------------------------------------ _drain_one
\* steps 1 to 6 for one address: live balance, rent minimum, fee estimate
DrainGetBalance(u, rent_min, est_fee) ==
    /\ drain[u].pc = "idle"
    /\ ~(now < sweep_backoff[u])
    /\ LET lamports == onchain[u]
           provisional == IF lamports - (rent_min + BASE_FEE_BUFFER) > 0
                          THEN lamports - (rent_min + BASE_FEE_BUFFER) ELSE 0
           send_lamports == lamports - (rent_min + est_fee + BASE_FEE_BUFFER)
       IN /\ lamports > MIN_BALANCE_LAMPORTS
          /\ provisional # 0
          /\ send_lamports > 0
          /\ drain' = [drain EXCEPT ![u] = [pc |-> "send", send_lamports |-> send_lamports]]
    /\ UNCHANGED <<balance, stats, pfVars, socialVars, withdrawVars, tasks, onchain, sol_balance, poll, sweep_errors, sweep_backoff,
                   received, creditedDep, quietCycles>>

\* steps 7 and 8: the transfer is sent and lands, snapshot to 0, backoff reset
DrainSend(u) ==
    /\ drain[u].pc = "send"
    /\ onchain[u] >= drain[u].send_lamports + DEFAULT_FEE
    /\ onchain' = [onchain EXCEPT ![u] = @ - (drain[u].send_lamports + DEFAULT_FEE)]
    /\ sol_balance' = [sol_balance EXCEPT ![u] = 0]
    /\ sweep_errors' = [sweep_errors EXCEPT ![u] = 0]
    /\ sweep_backoff' = [sweep_backoff EXCEPT ![u] = 0]
    /\ drain' = [drain EXCEPT ![u] = NoDrain]
    /\ UNCHANGED <<balance, stats, pfVars, socialVars, withdrawVars, tasks, poll, received, creditedDep, quietCycles>>

\* min(2 ** min(cnt, 6), MAX_BACKOFF_SEC)
sweep_backoff_sec(cnt) == Min(2 ^ Min(cnt, 6), MAX_BACKOFF_SEC)

\* an RPC call raises: one more consecutive error, exponential backoff
DrainFails(u) ==
    /\ drain[u].pc = "send"
    /\ sweep_errors' = [sweep_errors EXCEPT ![u] = IF @ < MaxSweepErrors THEN @ + 1 ELSE @]
    /\ sweep_backoff' = [sweep_backoff EXCEPT ![u] = now + sweep_backoff_sec(sweep_errors'[u])]
    /\ drain' = [drain EXCEPT ![u] = NoDrain]
    /\ UNCHANGED <<balance, stats, pfVars, socialVars, withdrawVars, tasks, onchain, sol_balance, poll, received, creditedDep,
                   quietCycles>>

\* ==================================================================== loans
\* Amounts in milli-QC, durations in days.
\* the first row of the table with this user and status, 0 when there is none
loans_get(user_id, status) ==
    LET hits == {i \in 1..Len(loans) : loans[i].user_id = user_id /\ loans[i].status = status}
    IN IF hits = {} THEN 0 ELSE CHOOSE i \in hits : \A j \in hits : i <= j

loans_get_active(user_id) == loans_get(user_id, "active")

\* a lookup that never finds the pending application
loans_get_pending_blind(user_id) == 0

loans_get_pending(user_id) == loans_get(user_id, "pending")

RECURSIVE SumActive(_)
SumActive(n) ==
    IF n = 0 THEN 0
    ELSE SumActive(n - 1) + (IF loans[n].status = "active" THEN loans[n].principal_qc ELSE 0)

loans_total_outstanding_qc == SumActive(Len(loans))

eligible_max_loan_qc(u, banned) ==
    IF banned THEN 0
    ELSE IF u.total_depo < REQUIRE_DEPOSIT_MIN THEN 0
    ELSE IF u.total_wagered < REQUIRE_WAGERED_MIN THEN 0
    ELSE IF u.net_profit_loss < REQUIRE_NETPL_MIN THEN 0
    ELSE LET bonus == IF u.net_profit_loss > 0
                      THEN Min((u.net_profit_loss * 3) \div 10, NETPL_BONUS_MAX) ELSE 0
             base == u.total_depo * 2 + u.total_wagered + bonus
         IN Max(LOAN_MIN_QC, Min(LOAN_MAX_QC, base \div 10))

parse_duration_to_days(days) == Max(LOAN_MIN_DAYS, Min(days, LOAN_MAX_DAYS))

calc_interest_qc(principal_qc, duration_days, withdraw_flag) ==
    LET rate == IF withdraw_flag = 0 THEN LOAN_LOW_RATE_PCT ELSE LOAN_BASE_RATE_PCT
    IN (principal_qc * rate * duration_days) \div 700

\* loans_create_pending: the due date is fixed when the application is made
loans_create_pending(user_id, principal_qc, duration_days) ==
    Append(loans, [user_id |-> user_id, principal_qc |-> principal_qc,
                   duration_days |-> duration_days, due_date |-> now + duration_days,
                   status |-> "pending", withdraw_during_loan |-> 0])

\* loan_apply_cmd
LoanApply(user, amount, days) ==
    /\ Len(loans) < MaxLoans
    /\ LET max_loan == eligible_max_loan_qc(stats[user], loan_banned[user])
           principal == Max(LOAN_MIN_QC, Min(amount, max_loan))
       IN IF \/ loans_paused
             \/ loans_get_pending(user) # 0 \/ loans_get_active(user) # 0
             \/ max_loan <= 0
          THEN UNCHANGED loans
          ELSE loans' = loans_create_pending(user, principal, parse_duration_to_days(days))
    /\ apply_reply' = [user |-> user,
                       text |-> IF loans_paused THEN "paused"
                                ELSE IF loans_get_pending(user) # 0 \/ loans_get_active(user) # 0
                                THEN "already have a pending or active loan"
                                ELSE IF eligible_max_loan_qc(stats[user], loan_banned[user]) <= 0
                                THEN "ineligible"
                                ELSE "submitted"]
    /\ UNCHANGED <<balance, stats, pfVars, depVars, poolVars, loans_paused, loan_banned, ttt,
                   now, overdue>>

\* loan_approve_cmd
LoanApprove(id) ==
    /\ id \in 1..Len(loans)
    /\ LET loan == loans[id]
       IN IF \/ loan.status # "pending"
             \/ loans_total_outstanding_qc + loan.principal_qc > loans_outstanding_cap_qc
             \/ loan.principal_qc > balance[HOUSE]
          THEN UNCHANGED <<loans, balance>>
          ELSE /\ loans' = [loans EXCEPT ![id].status = "active"]
               /\ balance' = update_balance(balance, loan.user_id, loan.principal_qc)
    /\ UNCHANGED <<stats, pfVars, depVars, poolVars, loans_paused, loan_banned, ttt, clockVars>>

\* loan_deny_cmd
LoanDeny(id) ==
    /\ id \in 1..Len(loans)
    /\ IF loans[id].status # "pending"
       THEN UNCHANGED loans
       ELSE loans' = [loans EXCEPT ![id].status = "denied"]
    /\ UNCHANGED <<balance, stats, pfVars, depVars, poolVars, loans_paused, loan_banned, ttt, clockVars>>

\* loan_repay_cmd
LoanRepay(user) ==
    /\ LET id == loans_get_active(user)
       IN IF id = 0 THEN UNCHANGED <<balance, stats, loans>>
          ELSE LET loan == loans[id]
                   interest == calc_interest_qc(loan.principal_qc, loan.duration_days,
                                                loan.withdraw_during_loan)
                   total_due == loan.principal_qc + interest
               IN IF balance[user] < total_due
                  THEN UNCHANGED <<balance, stats, loans>>
                  ELSE /\ balance' = update_balance(balance, user, -total_due)
                       /\ loans' = [loans EXCEPT ![id].status = "repaid"]
                       /\ stats' = update_stats(stats, user, "net_profit_loss", -interest)
    /\ UNCHANGED <<pfVars, depVars, poolVars, loans_paused, loan_banned, ttt, clockVars>>

\* loan_pause_cmd on|off
LoanPause(flag) ==
    /\ loans_paused' = flag
    /\ UNCHANGED <<balance, stats, pfVars, depVars, poolVars, loans, loan_banned, ttt, clockVars>>

\* loan_ban_cmd
LoanBan(user) ==
    /\ loan_banned' = [loan_banned EXCEPT ![user] = TRUE]
    /\ UNCHANGED <<balance, stats, pfVars, depVars, poolVars, loans, loans_paused, ttt, clockVars>>

\* loan_unban_cmd
LoanUnban(user) ==
    /\ loan_banned' = [loan_banned EXCEPT ![user] = FALSE]
    /\ UNCHANGED <<balance, stats, pfVars, depVars, poolVars, loans, loans_paused, ttt, clockVars>>

\* one iteration of the for loop of _loans_overdue_loop over the rows it fetched
\* a variant that marks the loan defaulted and leaves the borrower unbanned
overdue_mark_noban(id) ==
    /\ loans' = [loans EXCEPT ![id].status = "defaulted"]
    /\ UNCHANGED loan_banned

overdue_mark(id) ==
    /\ loans' = [loans EXCEPT ![id].status = "defaulted"]
    /\ loan_banned' = [loan_banned EXCEPT ![loans[id].user_id] = TRUE]

RECURSIVE overdue_rows(_)
overdue_rows(n) ==
    IF n = 0 THEN <<>>
    ELSE IF loans[n].status = "active" /\ loans[n].due_date < now
         THEN Append(overdue_rows(n - 1), n) ELSE overdue_rows(n - 1)

\* _loans_overdue_loop, from one await to the next: after the sleep it
\* fetches the overdue rows and marks the first one; after each message to a
\* borrower it marks the next row of the list it fetched.
LoansOverdueLoop ==
    /\ LET rows == IF overdue.pc = "sleep" THEN overdue_rows(Len(loans)) ELSE overdue.rows
       IN IF rows = <<>>
          THEN /\ overdue' = [pc |-> "sleep", rows |-> <<>>]
               /\ UNCHANGED <<loans, loan_banned>>
          ELSE /\ overdue_mark(Head(rows))
               /\ overdue' = [pc |-> "send", rows |-> Tail(rows)]
    /\ UNCHANGED <<balance, stats, pfVars, depVars, poolVars, loans_paused, ttt, now, apply_reply>>

\* the clock advances
Tick ==
    /\ now < MaxNow
    /\ now' = now + 1
    /\ UNCHANGED <<balance, stats, pfVars, depVars, poolVars, loans, loans_paused, loan_banned,
                   ttt, overdue, apply_reply>>

\* ================================================================ TicTacToe
WINS == {{0, 1, 2}, {3, 4, 5}, {6, 7, 8}, {0, 3, 6}, {1, 4, 7}, {2, 5, 8}, {0, 4, 8}, {2, 4, 6}}

\* check_winner without the two diagonals
check_winner_straight(board, mark) ==
    \E w \in WINS \ {{0, 4, 8}, {2, 4, 6}} : \A i \in w : board[i] = mark

check_winner(board, mark) == \E w \in WINS : \A i \in w : board[i] = mark

\* make_move that leaves the turn with the player who moved
make_move_keeps_turn(game, player_id, position) ==
    IF game.game_over THEN [valid |-> FALSE, game |-> game]
    ELSE IF player_id # game.turn THEN [valid |-> FALSE, game |-> game]
    ELSE IF ~(0 <= position /\ position <= 8) THEN [valid |-> FALSE, game |-> game]
    ELSE IF game.board[position] # " " THEN [valid |-> FALSE, game |-> game]
    ELSE LET mark == IF player_id = game.player1_id THEN "X" ELSE "O"
             board == [game.board EXCEPT ![position] = mark]
             marked == [game EXCEPT !.board = board]
         IN IF check_winner(board, mark)
            THEN [valid |-> TRUE, game |-> [marked EXCEPT !.winner = player_id, !.game_over = TRUE]]
            ELSE IF \A i \in 0..8 : board[i] # " "
            THEN [valid |-> TRUE, game |-> [marked EXCEPT !.winner = "none", !.game_over = TRUE]]
            ELSE [valid |-> TRUE, game |-> marked]

\* TicTacToe.make_move: [valid, game]
make_move(game, player_id, position) ==
    IF game.game_over THEN [valid |-> FALSE, game |-> game]
    ELSE IF player_id # game.turn THEN [valid |-> FALSE, game |-> game]
    ELSE IF ~(0 <= position /\ position <= 8) THEN [valid |-> FALSE, game |-> game]
    ELSE IF game.board[position] # " " THEN [valid |-> FALSE, game |-> game]
    ELSE LET mark == IF player_id = game.player1_id THEN "X" ELSE "O"
             board == [game.board EXCEPT ![position] = mark]
             marked == [game EXCEPT !.board = board]
         IN IF check_winner(board, mark)
            THEN [valid |-> TRUE, game |-> [marked EXCEPT !.winner = player_id, !.game_over = TRUE]]
            ELSE IF \A i \in 0..8 : board[i] # " "
            THEN [valid |-> TRUE, game |-> [marked EXCEPT !.winner = "none", !.game_over = TRUE]]
            ELSE [valid |-> TRUE,
                  game |-> [marked EXCEPT !.turn = IF game.turn = game.player1_id
                                                   THEN game.player2_id ELSE game.player1_id]]

\* tictactoe_cmd; first is the outcome of random.choice.  One view at a time:
\* a new game starts when no unfinished one is on screen.
TicTacToeCmd(author, opponent, wager, first) ==
    /\ ~ttt.open \/ ttt.game_over
    /\ first \in {author, opponent}
    /\ IF opponent = author \/ wager < 0
       THEN UNCHANGED <<balance, ttt, clockVars>>
       ELSE IF wager > 0 /\ (balance[author] < wager \/ balance[opponent] < wager)
       THEN UNCHANGED <<balance, ttt, clockVars>>
       ELSE /\ balance' = IF wager > 0
                          THEN update_balance(update_balance(balance, author, -wager),
                                              opponent, -wager)
                          ELSE balance
            /\ ttt' = [NoTTT EXCEPT !.open = TRUE, !.player1_id = author,
                                    !.player2_id = opponent, !.turn = first, !.wager = wager]
    /\ UNCHANGED <<stats, pfVars, depVars, poolVars, loans, loans_paused, loan_banned, clockVars>>

\* the callback of button pos of the TicTacToeView, pressed by user
TicTacToeClick(user, pos) ==
    /\ ttt.open
    /\ IF user # ttt.turn THEN UNCHANGED <<balance, ttt, clockVars>>
       ELSE LET moved == make_move(ttt, user, pos)
                game == moved.game
            IN IF ~moved.valid THEN UNCHANGED <<balance, ttt, clockVars>>
               ELSE /\ ttt' = game
                    /\ IF game.game_over /\ ttt.wager > 0
                       THEN IF game.winner = "none"
                            THEN balance' = update_balance(
                                     update_balance(balance, game.player1_id, ttt.wager),
                                     game.player2_id, ttt.wager)
                            ELSE balance' = update_balance(balance, game.winner, ttt.wager * 2)
                       ELSE UNCHANGED balance
    /\ UNCHANGED <<stats, pfVars, depVars, poolVars, loans, loans_paused, loan_banned, clockVars>>

\* ================================================================== battles
Range(seq) == {seq[i] : i \in 1..Len(seq)}

\* the orders in which run_battle can place the players: the survivor first,
\* then the eliminated ones, last eliminated first
Placements(players) ==
    {p \in [1..Len(players) -> Range(players)] : \A i, j \in 1..Len(players) : p[i] = p[j] => i = j}

RECURSIVE RatioSum(_)
RatioSum(ratio) == IF ratio = <<>> THEN 0 ELSE ratio[1] + RatioSum(Tail(ratio))

\* the payout loop of run_battle, from placement i on
RECURSIVE pay_placements(_, _, _, _, _)
pay_placements(bal, pot_qc, ratios, placements, i) ==
    IF i > Min(Len(ratios), Len(placements)) THEN bal
    ELSE LET share == (pot_qc * ratios[i]) \div 100
         IN pay_placements(IF share > 0 THEN update_balance(bal, placements[i], share) ELSE bal,
                           pot_qc, ratios, placements, i + 1)

\* battle create <pot> QC <time> <ratio> <max_players>
BattleCreate(host, amount, ratio, max_players) ==
    /\ battle.status = "none"
    /\ IF RatioSum(ratio) <= 0 \/ amount <= 0 \/ balance[host] < amount
       THEN UNCHANGED <<balance, battle>>
       ELSE /\ balance' = update_balance(balance, host, -amount)
            /\ battle' = [status |-> "open", host_id |-> host, pot_qc |-> amount,
                          ratio |-> ratio, max_players |-> max_players, players |-> <<host>>]
    /\ UNCHANGED <<stats, pfVars, depVars, loans, loans_paused, loan_banned, ttt, clockVars, lotteryVars, airdropVars,
                   fin, battle_settlements>>

\* BattleJoinView.join_btn
BattleJoin(uid) ==
    /\ battle.status # "none"
    /\ IF \/ battle.status # "open"
          \/ uid \in Range(battle.players)
          \/ Len(battle.players) >= battle.max_players
       THEN UNCHANGED battle
       ELSE battle' = [battle EXCEPT !.players = Append(@, uid)]
    /\ UNCHANGED <<balance, stats, pfVars, depVars, loans, loans_paused, loan_banned, ttt,
                   clockVars, lotteryVars, airdropVars, fin, battle_settlements>>

\* finalize_battle from the lobby lock on: cancel and refund the host, or
\* start the battle; players is the list read before the lock
finalize_decide(k, players) ==
    IF Len(players) < BATTLE_MIN_PLAYERS
    THEN /\ battle' = [battle EXCEPT !.status = "cancelled"]
         /\ balance' = update_balance(balance, battle.host_id, battle.pot_qc)
         /\ battle_settlements' = battle_settlements + 1
         /\ fin' = [fin EXCEPT ![k] = [pc |-> "done", players |-> players]]
    ELSE /\ battle' = [battle EXCEPT !.status = "started"]
         /\ fin' = [fin EXCEPT ![k] = [pc |-> "run", players |-> players]]
         /\ UNCHANGED <<balance, battle_settlements>>

\* finalize_after_timeout: the sleep is over, finalize_battle reads the row
\* and the players and awaits the edit of the lobby message
FinalizeTimer ==
    /\ battle.status # "none"
    /\ fin["timer"].pc = "idle"
    /\ IF battle.status # "open"
       THEN fin' = [fin EXCEPT !["timer"] = [pc |-> "done", players |-> <<>>]]
       ELSE fin' = [fin EXCEPT !["timer"] = [pc |-> "lock", players |-> battle.players]]
    /\ UNCHANGED <<balance, stats, pfVars, depVars, loans, loans_paused, loan_banned, ttt,
                   clockVars, lotteryVars, airdropVars, battle, battle_settlements>>

\* finalize_battle of the timer, resumed after the edit of the lobby message
FinalizeLocked ==
    /\ fin["timer"].pc = "lock"
    /\ finalize_decide("timer", fin["timer"].players)
    /\ UNCHANGED <<stats, pfVars, depVars, loans, loans_paused, loan_banned, ttt, clockVars, lotteryVars, airdropVars>>

\* battle start: finalize_battle without a lobby message, so with no await
\* between reading the row and changing its status
BattleStart(user) ==
    /\ battle.status # "none"
    /\ IF battle.status # "open" \/ user # battle.host_id
       THEN UNCHANGED <<balance, battle, fin, battle_settlements>>
       ELSE finalize_decide("start", battle.players)
    /\ UNCHANGED <<stats, pfVars, depVars, loans, loans_paused, loan_banned, ttt, clockVars, lotteryVars, airdropVars>>

\* run_battle, once the eliminations are over: the payouts and the final status
RunBattle(k, placements) ==
    /\ fin[k].pc = "run"
    /\ placements \in Placements(fin[k].players)
    /\ balance' = pay_placements(balance, battle.pot_qc, battle.ratio, placements, 1)
    /\ battle' = [battle EXCEPT !.status = "finished"]
    /\ battle_settlements' = battle_settlements + 1
    /\ fin' = [fin EXCEPT ![k].pc = "done"]
    /\ UNCHANGED <<stats, pfVars, depVars, loans, loans_paused, loan_banned, ttt, clockVars, lotteryVars, airdropVars>>

\* ---- run_battle step by step: the locals alive and eliminated are kept in
\* the record of the finalizer that runs it
Reverse(seq) == [i \in 1..Len(seq) |-> seq[Len(seq) + 1 - i]]

\* alive.remove(victim)
list_remove(seq, x) ==
    LET i == CHOOSE j \in 1..Len(seq) : seq[j] = x /\ \A l \in 1..(j - 1) : seq[l] # x
    IN [l \in 1..(Len(seq) - 1) |-> IF l < i THEN seq[l] ELSE seq[l + 1]]

\* alive = players.copy(); random.shuffle(alive); the intro embed is sent
RunBattleBegin(k) ==
    /\ fin[k].pc = "run"
    /\ \E shuffled \in Placements(fin[k].players) :
          fin' = [fin EXCEPT ![k] = [pc |-> "fight", players |-> fin[k].players,
                                    alive |-> shuffled, eliminated |-> <<>>]]
    /\ UNCHANGED <<balance, stats, pfVars, depVars, loans, loans_paused, loan_banned, ttt,
                   clockVars, lotteryVars, airdropVars, battle, battle_settlements>>

\* one pass of the while loop after its sleep: the victim of random.sample
\* leaves alive and joins eliminated
eliminate(run, victim) ==
    [run EXCEPT !.alive = list_remove(@, victim), !.eliminated = Append(@, victim)]

RunBattleRound(k, victim) ==
    /\ fin[k].pc = "fight"
    /\ Len(fin[k].alive) > 1
    /\ victim \in Range(fin[k].alive)
    /\ fin' = [fin EXCEPT ![k] = eliminate(@, victim)]
    /\ UNCHANGED <<balance, stats, pfVars, depVars, loans, loans_paused, loan_banned, ttt,
                   clockVars, lotteryVars, airdropVars, battle, battle_settlements>>

\* channel.send raises (the intro, an elimination embed or the result embed):
\* the exception leaves run_battle before the payouts
RunBattleSendFails(k) ==
    /\ fin[k].pc = "fight"
    /\ fin' = [fin EXCEPT ![k].pc = "aborted"]
    /\ UNCHANGED <<balance, stats, pfVars, depVars, loans, loans_paused, loan_banned, ttt,
                   clockVars, lotteryVars, airdropVars, battle, battle_settlements>>

\* the loop is over: placements, payouts and the final status
RunBattleFinish(k) ==
    /\ fin[k].pc = "fight"
    /\ Len(fin[k].alive) <= 1
    /\ LET winner == fin[k].alive[1]
           placements == <<winner>> \o Reverse(fin[k].eliminated)
       IN /\ balance' = pay_placements(balance, battle.pot_qc, battle.ratio, placements, 1)
          /\ fin' = [fin EXCEPT ![k] = [pc |-> "finished", players |-> fin[k].players,
                                        alive |-> fin[k].alive,
                                        eliminated |-> fin[k].eliminated,
                                        placements |-> placements]]
    /\ battle' = [battle EXCEPT !.status = "finished"]
    /\ battle_settlements' = battle_settlements + 1
    /\ UNCHANGED <<stats, pfVars, depVars, loans, loans_paused, loan_banned, ttt, clockVars, lotteryVars, airdropVars>>

\* ================================================================ lotteries
\* lottery_cmd <entry_cost> <duration>
LotteryCmd(entry_cost, secs) ==
    /\ IF entry_cost <= 0 \/ lottery.status = "open"
       THEN UNCHANGED <<lottery, lot_staked, lot_paid>>
       ELSE /\ lottery' = [NoLottery EXCEPT !.status = "open", !.entry_cost = entry_cost,
                                            !.ends_at = now + secs]
            /\ lot_staked' = 0
            /\ lot_paid' = 0
    /\ UNCHANGED <<balance, stats, pfVars, depVars, loans, loans_paused, loan_banned, ttt,
                   clockVars, battleVars, airdropVars, lotloop>>

\* join_cmd
LotteryJoin(uid) ==
    /\ MayWager(stats, uid)
    /\ IF lottery.status # "open" \/ balance[uid] < lottery.entry_cost
       THEN UNCHANGED <<balance, stats, lottery, lot_staked>>
       ELSE LET cost == lottery.entry_cost
            IN /\ balance' = update_balance(update_balance(balance, uid, -cost), HOUSE, cost)
               /\ stats' = update_stats(stats, uid, "total_wagered", cost)
               /\ lottery' = [lottery EXCEPT !.entries = Append(@, uid), !.pot = @ + cost]
               /\ lot_staked' = lot_staked + cost
    /\ UNCHANGED <<pfVars, depVars, loans, loans_paused, loan_banned, ttt, clockVars,
                   battleVars, airdropVars, lotloop, lot_paid>>

\* _lottery_mark_settled
lottery_mark_settled(winner_id) ==
    lottery' = [lottery EXCEPT !.status = "settled", !.winner_id = winner_id]

\* _lottery_settlement_loop after its sleep: the open lottery is due.  With
\* entries it draws the winner, pays min(pot, house balance) and awaits the
\* message to the winner; with none it marks the lottery settled at once.
LotterySettle(winner_id) ==
    /\ lotloop.pc = "sleep"
    /\ lottery.status = "open"
    /\ now >= lottery.ends_at
    /\ IF lottery.entries = <<>>
       THEN /\ lottery_mark_settled("none")
            /\ UNCHANGED <<balance, stats, lotloop, lot_paid>>
       ELSE /\ winner_id \in Range(lottery.entries)
            /\ LET pay == Min(lottery.pot, balance[HOUSE])
               IN IF lottery.pot > 0 /\ pay > 0
                  THEN /\ balance' = update_balance(update_balance(balance, HOUSE, -pay),
                                                    winner_id, pay)
                       /\ stats' = update_stats(stats, winner_id, "net_profit_loss", pay)
                       /\ lot_paid' = lot_paid + pay
                  ELSE UNCHANGED <<balance, stats, lot_paid>>
            /\ lotloop' = [pc |-> "send", winner_id |-> winner_id]
            /\ UNCHANGED lottery
    /\ UNCHANGED <<pfVars, depVars, loans, loans_paused, loan_banned, ttt, clockVars,
                   battleVars, airdropVars, lot_staked>>

\* the loop resumed after the message to the winner
LotteryMarkSettled ==
    /\ lotloop.pc = "send"
    /\ lottery_mark_settled(lotloop.winner_id)
    /\ lotloop' = NoLotLoop
    /\ UNCHANGED <<balance, stats, pfVars, depVars, loans, loans_paused, loan_banned, ttt,
                   clockVars, battleVars, airdropVars, lot_staked, lot_paid>>

\* ================================================================= airdrops
\* _airdrop_create; funded_by and releases are history: the account the amount
\* was debited from, and how many times the amount was paid out or refunded
airdrop_create(amount_qc, duration, created_by, funded_by) ==
    airdrops' = Append(airdrops,
                       [status |-> "open", amount_qc |-> amount_qc, created_by |-> created_by,
                        ends_at |-> now + duration, claims |-> {},
                        funded_by |-> funded_by, releases |-> 0])

\* airdrop_cmd of main.py: the amount is reserved from the treasury
AirdropCmd(author, amount_qc, secs) ==
    /\ Len(airdrops) < MaxAirdrops
    /\ IF \/ ~(AIR_MIN_SECONDS <= secs)
          \/ amount_qc <= 0
          \/ balance[HOUSE] < amount_qc
       THEN UNCHANGED <<balance, airdrops>>
       ELSE /\ balance' = update_balance(balance, HOUSE, -amount_qc)
            /\ airdrop_create(amount_qc, secs, author, HOUSE)
    /\ UNCHANGED <<stats, pfVars, depVars, loans, loans_paused, loan_banned, ttt, clockVars,
                   battleVars, lotteryVars, airloop>>

\* airdrop_cmd of the other version: the amount is reserved from the author
AirdropCmdPart000(author, amount_qc, secs) ==
    /\ Len(airdrops) < MaxAirdrops
    /\ IF \/ ~(AIR_MIN_SECONDS <= secs)
          \/ amount_qc <= 0
          \/ balance[author] < amount_qc
       THEN UNCHANGED <<balance, airdrops>>
       ELSE /\ balance' = update_balance(balance, author, -amount_qc)
            /\ airdrop_create(amount_qc, secs, author, author)
    /\ UNCHANGED <<stats, pfVars, depVars, loans, loans_paused, loan_banned, ttt, clockVars,
                   battleVars, lotteryVars, airloop>>

\* join_airdrop_cmd and the button of AirdropJoinView; _airdrop_add_claim is
\* INSERT OR IGNORE under UNIQUE(airdrop_id, user_id)
AirdropJoin(uid, id) ==
    /\ id \in 1..Len(airdrops)
    /\ IF airdrops[id].status # "open"
       THEN UNCHANGED airdrops
       ELSE airdrops' = [airdrops EXCEPT ![id].claims = @ \cup {uid}]
    /\ UNCHANGED <<balance, stats, pfVars, depVars, loans, loans_paused, loan_banned, ttt,
                   clockVars, battleVars, lotteryVars, airloop>>

\* airdrop_cancel_cmd of the other version
AirdropCancelPart000(author, has_manage_guild, id) ==
    /\ id \in 1..Len(airdrops)
    /\ LET d == airdrops[id]
       IN IF d.status # "open" \/ ~(d.created_by = author \/ has_manage_guild)
          THEN UNCHANGED <<balance, airdrops>>
          ELSE /\ airdrops' = [airdrops EXCEPT ![id].status = "canceled",
                                               ![id].releases = @ + 1]
               /\ balance' = IF d.amount_qc > 0
                             THEN update_balance(balance, HOUSE, d.amount_qc)
                             ELSE balance
    /\ UNCHANGED <<stats, pfVars, depVars, loans, loans_paused, loan_banned, ttt, clockVars,
                   battleVars, lotteryVars, airloop>>

\* _airdrop_list_open: the open rows by ends_at, which is the order of
\* creation when every airdrop lasts as long as the others
RECURSIVE airdrop_list_open(_)
airdrop_list_open(n) ==
    IF n = 0 THEN <<>>
    ELSE IF airdrops[n].status = "open"
         THEN Append(airdrop_list_open(n - 1), n) ELSE airdrop_list_open(n - 1)

\* the rows of the fetched list from its first row that is due at time t
RECURSIVE airdrop_due(_, _)
airdrop_due(rows, t) ==
    IF rows = <<>> THEN <<>>
    ELSE IF t >= airdrops[Head(rows)].ends_at THEN rows ELSE airdrop_due(Tail(rows), t)

\* the body of _airdrop_loop for one due row d: equal shares to the claimants
\* read now, what is left (or all of it without claimants) to refund_to, then
\* status settled, whatever the status of the row is by now
airdrop_settle(id, refund_to) ==
    LET d == airdrops[id]
        claimants == d.claims
        total_qc == d.amount_qc
        share == IF claimants = {} THEN 0 ELSE total_qc \div Cardinality(claimants)
        rest == total_qc - share * Cardinality(claimants)
    IN /\ balance' = [a \in Accounts |->
                        balance[a] + (IF a \in claimants THEN share ELSE 0)
                                   + (IF a = refund_to THEN rest ELSE 0)]
       /\ stats' = [a \in Accounts |->
                        IF a \in claimants
                        THEN [stats[a] EXCEPT !.net_profit_loss = @ + share]
                        ELSE stats[a]]
       /\ airdrops' = [airdrops EXCEPT ![id].status = "settled", ![id].releases = @ + 1]

\* _airdrop_loop from one await to the next: after the sleep it reads the
\* clock and the open rows and settles the first due one; after each edit of
\* a result message it goes on with the rows it fetched before
airdrop_loop_step(to_creator) ==
    LET fresh == airloop.pc = "sleep"
        t == IF fresh THEN now ELSE airloop.now
        rows == airdrop_due(IF fresh THEN airdrop_list_open(Len(airdrops)) ELSE airloop.rows, t)
    IN IF rows = <<>>
       THEN /\ airloop' = NoAirLoop
            /\ UNCHANGED <<balance, stats, airdrops>>
       ELSE /\ airdrop_settle(Head(rows),
                              IF to_creator THEN airdrops[Head(rows)].created_by ELSE HOUSE)
            /\ airloop' = [pc |-> "edit", rows |-> Tail(rows), now |-> t]

\* _airdrop_loop of main.py: what is not paid to claimants goes to the treasury
AirdropLoop ==
    /\ airdrop_loop_step(FALSE)
    /\ UNCHANGED <<pfVars, depVars, loans, loans_paused, loan_banned, ttt, clockVars,
                   battleVars, lotteryVars>>

\* _airdrop_loop of the other version: it goes to the creator
AirdropLoopPart000 ==
    /\ airdrop_loop_step(TRUE)
    /\ UNCHANGED <<pfVars, depVars, loans, loans_paused, loan_banned, ttt, clockVars,
                   battleVars, lotteryVars>>

\* ============================================================== withdrawals
\* wlog_update_status with an error text
wlog_update_status(wid, status, error) ==
    withdrawals' = [withdrawals EXCEPT ![wid].status = status, ![wid].error = error]

\* withdraw_cmd, from the balance check to the staged "pending" row
WithdrawCmd(user, amount_qc) ==
    /\ Len(withdrawals) < MaxWithdrawals
    /\ IF amount_qc <= 0 \/ balance[user] < amount_qc
       THEN UNCHANGED withdrawals
       ELSE withdrawals' = Append(withdrawals, [user_id |-> user, amount_qc |-> amount_qc,
                                                status |-> "pending", error |-> "none",
                                                transfers |-> 0])
    /\ UNCHANGED <<balance, stats, pfVars, socialVars, pollVars, tasks, wexec, chain_sent>>

\* WithdrawConfirmView.cancel
WithdrawCancel(wid) ==
    /\ wid \in 1..Len(withdrawals)
    /\ withdrawals' = [withdrawals EXCEPT ![wid].status = "cancelled"]
    /\ UNCHANGED <<balance, stats, pfVars, socialVars, pollVars, tasks, wexec, chain_sent>>

\* _execute_withdraw up to its first await: the row must be pending or
\* confirmed, is marked confirmed, and the balance must cover the amount.
\* The Confirm button stays enabled, so a row can be executed again while an
\* earlier execution awaits the RPC.
execute_withdraw(wid) ==
    /\ wid \in 1..Len(withdrawals)
    /\ LET row == withdrawals[wid]
       IN IF row.status \notin {"pending", "confirmed"}
          THEN UNCHANGED <<withdrawals, wexec>>
          ELSE IF balance[row.user_id] < row.amount_qc \/ row.amount_qc <= 0
          THEN /\ wlog_update_status(wid, "failed", "Insufficient QC balance")
               /\ UNCHANGED wexec
          ELSE /\ withdrawals' = [withdrawals EXCEPT ![wid].status = "confirmed"]
               /\ wexec' = [wexec EXCEPT ![wid] = @ + 1]
    /\ UNCHANGED <<balance, stats, pfVars, socialVars, pollVars, tasks, chain_sent>>

\* the Confirm button of a staged row
WithdrawExecute(wid) ==
    /\ wexec[wid] < MaxConfirms
    /\ execute_withdraw(wid)

\* the Confirm button pressed again while earlier executions await the RPC
WithdrawConfirm(wid) ==
    /\ wexec[wid] < MaxClicks
    /\ execute_withdraw(wid)

\* an RPC call before the send raises (blockhash, fee or balance of the house
\* wallet): the exception leaves _execute_withdraw
WithdrawRpcFails(wid) ==
    /\ wid \in 1..Len(withdrawals)
    /\ wexec[wid] > 0
    /\ wexec' = [wexec EXCEPT ![wid] = @ - 1]
    /\ UNCHANGED <<balance, stats, pfVars, socialVars, pollVars, tasks, withdrawals, chain_sent>>

\* the house wallet cannot pay the amount and the fee
WithdrawHouseShort(wid) ==
    /\ wid \in 1..Len(withdrawals)
    /\ wexec[wid] > 0
    /\ wlog_update_status(wid, "failed", "House wallet insufficient")
    /\ wexec' = [wexec EXCEPT ![wid] = @ - 1]
    /\ UNCHANGED <<balance, stats, pfVars, socialVars, pollVars, tasks, chain_sent>>

\* send_raw_transaction raises, with the QC deducted before the send
WithdrawSendFailsDebited(wid) ==
    /\ wid \in 1..Len(withdrawals)
    /\ wexec[wid] > 0
    /\ balance' = update_balance(balance, withdrawals[wid].user_id, -withdrawals[wid].amount_qc)
    /\ wlog_update_status(wid, "failed", "send error")
    /\ wexec' = [wexec EXCEPT ![wid] = @ - 1]
    /\ UNCHANGED <<stats, pfVars, socialVars, pollVars, tasks, chain_sent>>

\* send_raw_transaction raises
WithdrawSendFails(wid) ==
    /\ wid \in 1..Len(withdrawals)
    /\ wexec[wid] > 0
    /\ wlog_update_status(wid, "failed", "send error")
    /\ wexec' = [wexec EXCEPT ![wid] = @ - 1]
    /\ UNCHANGED <<balance, stats, pfVars, socialVars, pollVars, tasks, chain_sent>>

\* send_raw_transaction returns a signature: the QC is deducted and the row
\* marked sent
WithdrawSend(wid) ==
    /\ wid \in 1..Len(withdrawals)
    /\ wexec[wid] > 0
    /\ LET row == withdrawals[wid]
       IN /\ chain_sent' = [chain_sent EXCEPT ![row.user_id] = @ + row.amount_qc]
          /\ balance' = update_balance(balance, row.user_id, -row.amount_qc)
          /\ stats' = update_stats(stats, row.user_id, "total_withdraw", row.amount_qc)
    /\ withdrawals' = [withdrawals EXCEPT ![wid].status = "sent", ![wid].transfers = @ + 1]
    /\ wexec' = [wexec EXCEPT ![wid] = @ - 1]
    /\ UNCHANGED <<pfVars, socialVars, pollVars, tasks>>

\* ================================================================== startup
\* bot.setup_hook, run once at login.  The module assigns it three times
\* (_airdrop_setup_hook, _battle_setup_hook, _setup_loans); the last
\* assignment is the hook that runs, and it creates the loan loop.
SetupHook ==
    /\ tasks["loans"] = 0
    /\ tasks' = [tasks EXCEPT !["loans"] = 1]
    /\ UNCHANGED <<balance, stats, pfVars, socialVars, pollVars, withdrawVars>>

\* on_ready, each time the gateway reports ready: three create_task calls
OnReady ==
    /\ tasks["loans"] > 0
    /\ tasks["poll_deposits"] < MaxReady
    /\ tasks' = [tasks EXCEPT !["poll_deposits"] = @ + 1, !["lottery"] = @ + 1,
                              !["sweeper"] = @ + 1]
    /\ UNCHANGED <<balance, stats, pfVars, socialVars, pollVars, withdrawVars>>

\* one pass of a pool settlement loop whose task has been created
PoolLoopIteration(l) ==
    /\ tasks[l] > 0
    /\ CASE l = "lottery" -> (\E w \in Users : LotterySettle(w)) \/ LotteryMarkSettled
         [] l = "airdrop" -> AirdropLoop
         [] OTHER -> FALSE

\* --------------------------------------------------- the deposit reconciler
NextDeposit ==
    \/ \E u \in Users, d \in DepositInputs : ChainDeposit(u, d)
    \/ PollFetchRows
    \/ PollRow
    \/ PollRowRpcFails
    \/ PollRowFailsAfterCredit
    \/ SweepGetBalance
    \/ SweepSend
    \/ SweepSendFails
    \/ \E u \in Users : DrainGetBalance(u, RentExemptMin, DEFAULT_FEE)
    \/ \E u \in Users : DrainSend(u)
    \/ \E u \in Users : DrainFails(u)
    \/ Tick

SpecDeposit == Init /\ [][NextDeposit]_vars

\* the deposit poller and the sweeper with the failures of their iterations
NextLoops ==
    \/ NextDeposit
    \/ PollFetchRowsFails

SpecLoops == Init /\ [][NextLoops]_vars

\* ---------------------------------------------------------- a keno player
\* One player, who may fund the house with tips, in one channel.
NextKeno ==
    \/ \E amount \in AmountInputs : Tip(PFUser, HOUSE, amount)
    \/ \E ss \in ServerSeeds, cs \in FreshClientSeeds : KenoCmd(1, PFUser, ss, cs)
    \/ \E wager \in AmountInputs : KenoAmount(1, wager)
    \/ KenoAmountTimeout(1)
    \/ \E picks \in PickInputs : KenoPicks(1, picks)
    \/ KenoPicksTimeout(1)
    \/ KenoRefund(1)
    \/ KenoRefundNoticeFails(1)
    \/ \E client_seed \in ClientSeeds, ss \in ServerSeeds, cs \in FreshClientSeeds :
          KenoSeed(PFUser, client_seed, ss, cs)
    \/ KenoVerifyLast(PFUser)
    \/ \E i \in 1..Len(rounds) :
          KenoVerify(rounds[i].server_seed, rounds[i].client_seed, rounds[i].nonce)

SpecKeno == Init /\ [][NextKeno]_vars

\* --------------------------------------------------------- a limbo player
NextLimbo ==
    \/ \E amount \in AmountInputs : Tip(PFUser, HOUSE, amount)
    \/ \E s \in Sessions, amount \in AmountInputs, ss \in ServerSeeds, cs \in FreshClientSeeds :
          LimboCmd(s, PFUser, amount, ss, cs)
    \/ \E s \in Sessions, target \in TargetInputs : LimboSelect(s, target)
    \/ \E s \in Sessions : LimboRoll(s)
    \/ \E s \in Sessions : LimboTimeout(s)
    \/ \E client_seed \in ClientSeeds, ss \in ServerSeeds, cs \in FreshClientSeeds :
          LimboSeed(PFUser, client_seed, ss, cs)
    \/ \E i \in 1..Len(rounds) :
          LimboVerify(rounds[i].server_seed, rounds[i].client_seed, rounds[i].nonce)

SpecLimbo == Init /\ [][NextLimbo]_vars

\* ------------------------------------------- a player of keno and limbo
\* One player plays keno in one channel and limbo on one view, and sets the
\* client seed of either game between rounds.
NextSeeds ==
    \/ \E ss \in ServerSeeds, cs \in FreshClientSeeds : KenoCmd(1, PFUser, ss, cs)
    \/ \E wager \in AmountInputs : KenoAmount(1, wager)
    \/ \E picks \in PickInputs : KenoPicks(1, picks)
    \/ KenoRefund(1)
    \/ \E client_seed \in ClientSeeds, ss \in ServerSeeds, cs \in FreshClientSeeds :
          KenoSeed(PFUser, client_seed, ss, cs)
    \/ \E amount \in AmountInputs, ss \in ServerSeeds, cs \in FreshClientSeeds :
          LimboCmd(1, PFUser, amount, ss, cs)
    \/ \E target \in TargetInputs : LimboSelect(1, target)
    \/ LimboRoll(1)
    \/ \E client_seed \in ClientSeeds, ss \in ServerSeeds, cs \in FreshClientSeeds :
          LimboSeed(PFUser, client_seed, ss, cs)

SpecSeeds == Init /\ [][NextSeeds]_vars

\* ----------------------------------------------------------------- rerolls
\* One player plays keno and flips coins, rerolls either, sets the keno client
\* seed, and may fund the house with tips.
NextReroll ==
    \/ \E amount \in AmountInputs : Tip(PFUser, HOUSE, amount)
    \/ \E ss \in ServerSeeds, cs \in FreshClientSeeds : KenoCmd(1, PFUser, ss, cs)
    \/ \E wager \in AmountInputs : KenoAmount(1, wager)
    \/ \E picks \in PickInputs : KenoPicks(1, picks)
    \/ KenoRefund(1)
    \/ \E ss \in ServerSeeds, cs \in FreshClientSeeds : KenoReroll(1, PFUser, ss, cs)
    \/ \E client_seed \in ClientSeeds, ss \in ServerSeeds, cs \in FreshClientSeeds :
          KenoSeed(PFUser, client_seed, ss, cs)
    \/ \E amount \in AmountInputs, choice \in {"heads", "tails"},
          ss \in ServerSeeds, cs \in FreshClientSeeds : Coinflip(PFUser, amount, choice, ss, cs)
    \/ \E ss \in ServerSeeds, cs \in FreshClientSeeds : CoinflipReroll(PFUser, ss, cs)

SpecReroll == Init /\ [][NextReroll]_vars

\* One player holds a keno conversation in each of two channels and tips,
\* while the other player flips coins.
NextWager ==
    \/ \E recipient \in Accounts, amount \in AmountInputs : Tip(PFUser, recipient, amount)
    \/ \E amount \in AmountInputs, choice \in {"heads", "tails"},
          ss \in ServerSeeds, cs \in FreshClientSeeds : Coinflip(OtherUser, amount, choice, ss, cs)
    \/ \E s \in Sessions, ss \in ServerSeeds, cs \in FreshClientSeeds : KenoCmd(s, PFUser, ss, cs)
    \/ \E s \in Sessions, wager \in AmountInputs : KenoAmount(s, wager)
    \/ \E s \in Sessions : KenoAmountTimeout(s)
    \/ \E s \in Sessions, picks \in PickInputs : KenoPicks(s, picks)
    \/ \E s \in Sessions : KenoPicksTimeout(s)
    \/ \E s \in Sessions : KenoRefund(s)
    \/ \E s \in Sessions : KenoRefundNoticeFails(s)
    \/ \E i \in 1..Len(rounds) :
          CoinflipVerify(rounds[i].server_seed, rounds[i].client_seed, rounds[i].nonce)

SpecWager == Init /\ [][NextWager]_vars

\* ---------------------------------------------------------------- coinflips
\* Both players hold 100 QC and the house nothing; they flip coins, verify
\* them, and tip the house.
InitLedgerCoinflip ==
    /\ balance = [a \in Accounts |-> IF a = HOUSE THEN InitHouseBalance ELSE CoinUserBalance]
    /\ stats = [a \in Accounts |-> NoStats]

InitCoinflip == InitLedgerCoinflip /\ InitGames /\ InitDeposits /\ InitSocial

NextCoinflip ==
    \/ \E u \in Users, amount \in CoinAmounts, choice \in {"heads", "tails"},
          ss \in ServerSeeds, cs \in FreshClientSeeds : Coinflip(u, amount, choice, ss, cs)
    \/ \E amount \in CoinTips : Tip(OtherUser, HOUSE, amount)
    \/ \E i \in 1..Len(rounds) :
          CoinflipVerify(rounds[i].server_seed, rounds[i].client_seed, rounds[i].nonce)

SpecCoinflip == InitCoinflip /\ [][NextCoinflip]_vars

\* Two qualifying borrowers apply for loans, the admin reviews them, days pass
\* and the overdue loop runs; a borrower may tip the house.
InitLedgerMoney ==
    /\ balance = [a \in Accounts |-> IF a = HOUSE THEN InitTreasury ELSE InitUserBalance]
    /\ stats = [a \in Accounts |->
                  IF a \in Users
                  THEN [NoStats EXCEPT !.total_depo = BorrowerDeposited,
                                       !.total_wagered = BorrowerWagered]
                  ELSE NoStats]

InitMoney == InitLedgerMoney /\ InitGames /\ InitDeposits /\ InitSocial

NextMoney ==
    \/ \E amount \in AmountInputs : Tip(PFUser, HOUSE, amount)
    \/ \E u \in Users, amount \in LoanAmountInputs, days \in DurationInputs :
          LoanApply(u, amount, days)
    \/ \E id \in 1..MaxLoans : LoanApprove(id)
    \/ \E id \in 1..MaxLoans : LoanDeny(id)
    \/ \E u \in Users : LoanRepay(u)
    \/ \E flag \in BOOLEAN : LoanPause(flag)
    \/ \E u \in Users : LoanBan(u)
    \/ \E u \in Users : LoanUnban(u)
    \/ LoansOverdueLoop
    \/ Tick

SpecMoney == InitMoney /\ [][NextMoney]_vars

\* -------------------------------------------------------------- withdrawals
\* A qualifying borrower takes loans, repays them and withdraws QC.
NextWithdraw ==
    \/ \E amount \in LoanAmountInputs, days \in DurationInputs : LoanApply(PFUser, amount, days)
    \/ \E id \in 1..MaxLoans : LoanApprove(id)
    \/ LoanRepay(PFUser)
    \/ \E amount \in WithdrawInputs : WithdrawCmd(PFUser, amount)
    \/ \E wid \in 1..MaxWithdrawals : WithdrawCancel(wid)
    \/ \E wid \in 1..MaxWithdrawals : WithdrawExecute(wid)
    \/ \E wid \in 1..MaxWithdrawals : WithdrawRpcFails(wid)
    \/ \E wid \in 1..MaxWithdrawals : WithdrawHouseShort(wid)
    \/ \E wid \in 1..MaxWithdrawals : WithdrawSendFails(wid)
    \/ \E wid \in 1..MaxWithdrawals : WithdrawSend(wid)

SpecWithdraw == InitMoney /\ [][NextWithdraw]_vars

\* One user stages withdrawals and presses Confirm and Cancel at any time.
NextConfirm ==
    \/ \E amount \in WithdrawInputs : WithdrawCmd(PFUser, amount)
    \/ \E wid \in 1..MaxWithdrawals : WithdrawCancel(wid)
    \/ \E wid \in 1..MaxWithdrawals : WithdrawConfirm(wid)
    \/ \E wid \in 1..MaxWithdrawals : WithdrawSendFails(wid)
    \/ \E wid \in 1..MaxWithdrawals : WithdrawSend(wid)

SpecConfirm == Init /\ [][NextConfirm]_vars

\* ---------------------------------------------------------------- TicTacToe
NextTTT ==
    \/ \E author \in Users, opponent \in Users, wager \in TttWagers, first \in Users :
          TicTacToeCmd(author, opponent, wager, first)
    \/ \E u \in Users, pos \in 0..8 : TicTacToeClick(u, pos)

SpecTTT == Init /\ [][NextTTT]_vars

\* ------------------------------------------------------------------ battles
\* One battle: a host creates it, the others join, the timer or the host's
\* battle start finalizes it.
NextBattle ==
    \/ \E host \in Users, amount \in PotInputs, ratio \in RatioInputs, mp \in MaxPlayersInputs :
          BattleCreate(host, amount, ratio, mp)
    \/ \E u \in Users : BattleJoin(u)
    \/ FinalizeTimer
    \/ FinalizeLocked
    \/ \E u \in Users : BattleStart(u)
    \/ \E k \in Finalizers, u1 \in Users, u2 \in Users : RunBattle(k, <<u1, u2>>)

SpecBattle == Init /\ [][NextBattle]_vars

\* A battle of up to three fighters, run elimination by elimination.
InitLedgerArena ==
    /\ balance = [a \in Fighters \cup {HOUSE} |-> IF a = HOUSE THEN InitHouseBalance ELSE InitUserBalance + ArenaPot]
    /\ stats = [a \in Accounts |-> NoStats]

InitArena == InitLedgerArena /\ InitGames /\ InitDeposits /\ InitSocial

NextArena ==
    \/ \E ratio \in RatioInputs : BattleCreate(PFUser, ArenaPot, ratio, Cardinality(Fighters))
    \/ \E u \in Fighters : BattleJoin(u)
    \/ FinalizeTimer
    \/ FinalizeLocked
    \/ BattleStart(PFUser)
    \/ \E k \in Finalizers : RunBattleBegin(k)
    \/ \E k \in Finalizers, victim \in Fighters : RunBattleRound(k, victim)
    \/ \E k \in Finalizers : RunBattleSendFails(k)
    \/ \E k \in Finalizers : RunBattleFinish(k)

SpecArena == InitArena /\ [][NextArena]_vars

\* ---------------------------------------------------------------- lotteries
NextLottery ==
    \/ \E entry_cost \in AmountInputs, secs \in DurationInputs : LotteryCmd(entry_cost, secs)
    \/ \E u \in Users : LotteryJoin(u)
    \/ \E w \in Users : LotterySettle(w)
    \/ LotteryMarkSettled
    \/ Tick

SpecLottery == Init /\ [][NextLottery]_vars

\* ----------------------------------------------------------------- airdrops
NextAirdrop ==
    \/ \E a \in Users, amt \in AirdropAmounts, secs \in AirdropSeconds : AirdropCmd(a, amt, secs)
    \/ \E u \in Users, id \in 1..MaxAirdrops : AirdropJoin(u, id)
    \/ AirdropLoop
    \/ Tick

SpecAirdrop == InitMoney /\ [][NextAirdrop]_vars

\* The bot from its login on: the hook, the ready events, and the pools whose
\* settlement is left to the loops that were started.
NextStartup ==
    \/ SetupHook
    \/ OnReady
    \/ \E cost \in Stakes, secs \in DurationInputs : LotteryCmd(cost, secs)
    \/ \E amt \in Stakes, secs \in AirdropSeconds : AirdropCmd(PFUser, amt, secs)
    \/ \E id \in 1..MaxAirdrops : AirdropJoin(OtherUser, id)
    \/ \E l \in {"lottery", "airdrop"} : PoolLoopIteration(l)
    \/ Tick

SpecStartup == InitMoney /\ [][NextStartup]_vars

\* The process keeps running: every started loop that has a pass to make makes
\* it, the hook and the first ready event happen, and time passes.
SpecStartupFair ==
    /\ SpecStartup
    /\ WF_vars(SetupHook)
    /\ WF_vars(OnReady)
    /\ WF_vars(Tick)
    /\ \A l \in {"lottery", "airdrop"} : WF_vars(PoolLoopIteration(l))

NextAirdropPart000 ==
    \/ \E a \in Users, amt \in AirdropAmounts, secs \in AirdropSeconds :
          AirdropCmdPart000(a, amt, secs)
    \/ \E u \in Users, id \in 1..MaxAirdrops : AirdropJoin(u, id)
    \/ \E u \in Users, mg \in BOOLEAN, id \in 1..MaxAirdrops : AirdropCancelPart000(u, mg, id)
    \/ AirdropLoopPart000
    \/ Tick

SpecAirdropPart000 == Init /\ [][NextAirdropPart000]_vars

\* ------------------------------------------------------------- the money
RECURSIVE SumOver(_, _)
SumOver(f, S) ==
    IF S = {} THEN 0
    ELSE LET x == CHOOSE y \in S : TRUE IN f[x] + SumOver(f, S \ {x})

\* stakes held by an unfinished wagered TicTacToe game
Reserved == IF ttt.open /\ ~ttt.game_over /\ ttt.wager > 0 THEN 2 * ttt.wager ELSE 0

TotalMoney == SumOver(balance, Accounts) + Reserved

TotalCredited == SumOver(creditedDep, Users)

\* ===================================================================== claims

\* C1: no internal operation (wager escrow and settlement, tip, TicTacToe start
\* and finish, loan approval and repayment) changes the total of all account
\* balances plus the funds reserved in unfinished wagered games; the total
\* moves only by what the deposit reconciler credits.
C1_MoneyConserved == [][TotalMoney' - TotalMoney = TotalCredited' - TotalCredited]_vars

\* C2: in every reachable state the balance of every account, users and house,
\* is greater than or equal to 0.
C2_BalancesNonNegative == \A a \in Accounts : balance[a] >= 0

\* C3: the QC credited to a user for deposits is the lamports received at the
\* user's address converted at the fixed rate: never more, and not less once
\* the snapshot has caught up with the address, when nothing is left to detect.
C3_CreditedEqualsReceived ==
    \A u \in Users :
        /\ creditedDep[u] <= received[u] * QC_PER_UNIT
        /\ onchain[u] = sol_balance[u] => creditedDep[u] = received[u] * QC_PER_UNIT

\* C4: every step that credits a deposit also advances the snapshot of that
\* address, and every step that advances a snapshot also credits the deposit.
C4_CreditAndSnapshotTogether ==
    [][\A u \in Users :
          (creditedDep'[u] > creditedDep[u]) <=> (sol_balance'[u] > sol_balance[u])]_vars

\* C5: in the second of two consecutive poll cycles with no deposit arriving
\* since the first one started, no QC is credited.
C5_SecondCycleCreditsZero ==
    [][quietCycles = 2 => creditedDep' = creditedDep]_vars

\* C6: every outcome was derived from a commitment whose server_hash had been
\* shown to the user before the outcome was computed.
C6_HashShownBeforeOutcome == \A i \in 1..Len(rounds) : rounds[i].hash_before

\* C7: under one (server_seed, client_seed) pair of one player and game, a later
\* draw uses a strictly larger nonce than every earlier draw, so no
\* (server_seed, client_seed, nonce) triple derives two outcomes.
C7_NonceStrictlyIncreases ==
    \A i, j \in 1..Len(rounds) :
        (/\ i < j
         /\ rounds[i].game = rounds[j].game
         /\ rounds[i].user = rounds[j].user
         /\ rounds[i].server_seed = rounds[j].server_seed
         /\ rounds[i].client_seed = rounds[j].client_seed)
        => rounds[i].nonce < rounds[j].nonce

\* C8: what a game's verify command answers for the seeds and nonce of a settled
\* round is the outcome that settled the round: the same keno draw, the same
\* coin side, the same limbo RNG and, by the rule it states, the same win or loss.
C8_VerifyMatchesSettlement ==
    \A i \in 1..Len(rounds) :
        (/\ rounds[i].settled
         /\ verifyOut.game = rounds[i].game
         /\ verifyOut.server_seed = rounds[i].server_seed
         /\ verifyOut.client_seed = rounds[i].client_seed
         /\ verifyOut.nonce = rounds[i].nonce)
        => CASE rounds[i].game = "keno" -> verifyOut.draw = rounds[i].draw
             [] rounds[i].game = "coinflip" -> verifyOut.result = rounds[i].result
             [] OTHER -> /\ verifyOut.rng = rounds[i].rng
                         /\ limbo_verify_rule(verifyOut.rng, rounds[i].target) = rounds[i].win

\* C9: when a keno round whose payout the house cannot cover ends, the stake is
\* back with the player, the house has given exactly the stake back, and the
\* house balance is not negative.
C9_EscrowReversedInFull ==
    [][\A s \in Sessions :
          (keno[s].pc = "refund_notice" /\ keno'[s].pc # "refund_notice")
          => /\ balance'[keno[s].user] = balance[keno[s].user] + keno[s].wager
             /\ balance'[HOUSE] = balance[HOUSE] - keno[s].wager
             /\ balance'[HOUSE] >= 0]_vars

\* C10: at the step that debits a stake the player's balance covers it, i.e. the
\* balance check holds at the moment of the debit.
C10_CheckAtomicWithDebit ==
    [][\A s \in Sessions :
          (keno[s].pc = "await_amount" /\ keno'[s].pc = "await_picks")
          => balance[keno[s].user] >= keno'[s].wager]_vars

\* C18: a loan becomes defaulted only in a step that finds it active with the
\* clock at or past its due date; in particular a repaid loan never becomes
\* defaulted.
C18_DefaultOnlyFromActivePastDue ==
    [][\A id \in 1..Len(loans) :
          (loans'[id].status = "defaulted" /\ loans[id].status # "defaulted")
          => (loans[id].status = "active" /\ now >= loans[id].due_date)]_vars

\* C19: the step that approves a pending loan credits the principal to the
\* borrower, debits the same principal from the house and sets the loan active.
C19_ApprovalMovesPrincipalFromHouse ==
    [][\A id \in 1..Len(loans) :
          (loans[id].status = "pending" /\ loans'[id].status = "active")
          => /\ balance'[loans[id].user_id] = balance[loans[id].user_id] + loans[id].principal_qc
             /\ balance'[HOUSE] = balance[HOUSE] - loans[id].principal_qc]_vars

\* C20: every user has at most one loan that is pending or active, and an
\* application made while the user has one creates no loan record.
OpenLoans(u) == {i \in 1..Len(loans) : loans[i].user_id = u /\ loans[i].status \in {"pending", "active"}}

C20_OneOpenLoanPerUser ==
    [][/\ \A u \in Users : Cardinality(OpenLoans(u)) <= 1
       /\ \A u \in Users : Cardinality(OpenLoans(u))' <= 1
       /\ Len(loans') > Len(loans) => OpenLoans(loans'[Len(loans')].user_id) = {}]_vars

\* an application was answered with the conflict message while the applicant
\* had a pending or active loan
C20_Witness ==
    /\ apply_reply.text = "already have a pending or active loan"
    /\ OpenLoans(apply_reply.user) # {}
    /\ Len(loans) = 1

\* C11: however the timer's finalize_battle and the host's battle start
\* interleave, the battle's refund or prize distribution is made at most once.
C11_BattleSettledOnce == battle_settlements <= 1

\* C16: the step of run_battle that pays the placements credits, in total,
\* exactly the pot that was debited from the host.
C16_PayoutsSumToPot ==
    [][\A k \in Finalizers :
          (fin[k].pc = "run" /\ fin'[k].pc = "done")
          => SumOver(balance, Accounts)' - SumOver(balance, Accounts) = battle.pot_qc]_vars

\* C13: a settled lottery that had entries has paid its winner the whole pot,
\* the sum of the stakes debited from users for that lottery.
C13_WinnerGetsWholePot ==
    (lottery.status = "settled" /\ lottery.entries # <<>>)
    => (lottery.winner_id \in Range(lottery.entries) /\ lot_paid = lot_staked)

\* C17: each user is counted at most once per pool: no user appears twice among
\* the entries of a lottery or the participants of a battle.
C17_JoinedAtMostOnce ==
    /\ \A i, j \in 1..Len(lottery.entries) : lottery.entries[i] = lottery.entries[j] => i = j
    /\ \A i, j \in 1..Len(battle.players) : battle.players[i] = battle.players[j] => i = j

\* C12: settled and canceled are terminal: once an airdrop is settled or
\* canceled, no step changes its status or releases its reserved amount again.
C12_TerminalStatus ==
    [][\A id \in 1..Len(airdrops) :
          airdrops[id].status \in {"settled", "canceled"}
          => /\ airdrops'[id].status = airdrops[id].status
             /\ airdrops'[id].releases = airdrops[id].releases]_vars

\* C14: an airdrop that ends without paying claimants (canceled, or expired with
\* no claimant) credits its full amount to the account debited to fund it.
C14_RefundToFunder ==
    [][\A id \in 1..Len(airdrops) :
          (/\ airdrops[id].status = "open"
           /\ \/ airdrops'[id].status = "canceled"
              \/ airdrops'[id].status = "settled" /\ airdrops[id].claims = {})
          => balance'[airdrops[id].funded_by]
               = balance[airdrops[id].funded_by] + airdrops[id].amount_qc]_vars

\* C15: when an airdrop of main.py expires with no claimant, its full amount is
\* credited to its creator and the balance of the house does not change.
C15_ExpiryRefundsCreator ==
    [][\A id \in 1..Len(airdrops) :
          (/\ airdrops[id].status = "open"
           /\ airdrops'[id].status = "settled"
           /\ airdrops[id].claims = {})
          => /\ balance'[airdrops[id].created_by]
                  = balance[airdrops[id].created_by] + airdrops[id].amount_qc
             /\ balance'[HOUSE] = balance[HOUSE]]_vars

\* C25: setting a client seed replaces client_seed and resets nonce to 0; the
\* server_seed and server_hash of an existing commitment stay as they were.
C25_SetClientSeedKeepsServerSeed ==
    [][\A u \in Users, client_seed \in ClientSeeds, ss \in ServerSeeds, cs \in FreshClientSeeds :
          /\ KenoSeed(u, client_seed, ss, cs)
             => /\ pf'["keno"][u].client_seed = client_seed
                /\ pf'["keno"][u].nonce = 0
                /\ pf["keno"][u] # NoPF
                   => /\ pf'["keno"][u].server_seed = pf["keno"][u].server_seed
                      /\ pf'["keno"][u].server_hash = pf["keno"][u].server_hash
          /\ LimboSeed(u, client_seed, ss, cs)
             => /\ pf'["limbo"][u].client_seed = client_seed
                /\ pf'["limbo"][u].nonce = 0
                /\ pf["limbo"][u] # NoPF
                   => /\ pf'["limbo"][u].server_seed = pf["limbo"][u].server_seed
                      /\ pf'["limbo"][u].server_hash = pf["limbo"][u].server_hash]_vars

\* a client seed of the player's own choosing is in force in both games, with
\* nonce 0, after rounds were played under the earlier client seed
C25_Witness ==
    \A g \in {"keno", "limbo"} :
        /\ pf[g][PFUser].client_seed \notin FreshClientSeeds
        /\ pf[g][PFUser].nonce = 0
        /\ pf[g][PFUser].server_hash = sha256(pf[g][PFUser].server_seed)
        /\ \E i \in 1..Len(rounds) :
              rounds[i].game = g /\ rounds[i].client_seed \in FreshClientSeeds

\* C27: a wager whose stake is not positive or exceeds the user's balance is
\* rejected before any mutation: whenever a step takes a stake from a user
\* (total_wagered grows by it), the stake is positive and within the balance
\* the user holds at that step; otherwise no balance changes.
C27_BadStakeRejected ==
    [][\A u \in Users :
          LET stake == stats'[u].total_wagered - stats[u].total_wagered
          IN stake # 0 => (stake > 0 /\ stake <= balance[u])]_vars

\* the step is a winning coinflip of 50 QC by user u who held 100 QC
CoinflipScenario(u) ==
    /\ balance[u] = 100000
    /\ stats'[u].total_wagered = stats[u].total_wagered + 50000
    /\ Len(rounds') = Len(rounds) + 1
    /\ LET r == rounds'[Len(rounds')]
       IN r.game = "coinflip" /\ r.user = u /\ r.win

CoinflipScenarioPaid(u) ==
    /\ balance'[u] = 149000
    /\ balance'[HOUSE] = balance[HOUSE] - 49000
    /\ stats'[u].net_profit_loss = stats[u].net_profit_loss + 49000

\* C26 as stated: a user with 100 QC who wagers 50 QC on a coinflip and wins
\* ends with 149 QC, the house 49 QC lower, net_profit_loss 49 higher.
C26_WinPays149 ==
    [][\A u \in Users : CoinflipScenario(u) => CoinflipScenarioPaid(u)]_vars

\* C26 amended: the same when the house, holding the stake, can cover the
\* payout of 99 QC; when it cannot, the stake is refunded and the user ends
\* with 100 QC, the house as before, net_profit_loss unchanged.
C26_WinPays149IfCovered ==
    [][\A u \in Users :
          CoinflipScenario(u)
          => IF balance[HOUSE] + 50000 >= 99000
             THEN CoinflipScenarioPaid(u)
             ELSE /\ balance'[u] = 100000
                  /\ balance'[HOUSE] = balance[HOUSE]
                  /\ stats'[u].net_profit_loss = stats[u].net_profit_loss]_vars

\* a coinflip of 50 QC was won and paid: the winner holds 149 QC
C26_Witness ==
    \E u \in Users :
        /\ balance[u] = 149000
        /\ stats[u].net_profit_loss = 49000
        /\ \E i \in 1..Len(rounds) :
              rounds[i].game = "coinflip" /\ rounds[i].user = u /\ rounds[i].win

\* C28: a step that defaults a loan leaves its borrower loan_banned, and the
\* flag of a banned user is cleared by no step other than the admin's unban.
C28_DefaultBansUntilUnban ==
    [][/\ \A id \in 1..Len(loans) :
             (loans'[id].status = "defaulted" /\ loans[id].status # "defaulted")
             => loan_banned'[loans[id].user_id]
       /\ \A u \in Users : (loan_banned[u] /\ ~loan_banned'[u]) => LoanUnban(u)]_vars

\* a borrower whose loan was defaulted is banned and has since been refused a
\* new loan
C28_Witness ==
    \E id \in 1..Len(loans) :
        /\ loans[id].status = "defaulted"
        /\ loan_banned[loans[id].user_id]
        /\ apply_reply.user = loans[id].user_id
        /\ apply_reply.text = "ineligible"

\* C23: when a keno flow that holds an escrowed stake ends by timeout (it was
\* waiting for the picks and ends without a draw), that step credits the full
\* stake to the user and debits it from the house.
C23_TimeoutRefundsStake ==
    [][\A s \in Sessions :
          (keno[s].pc = "await_picks" /\ keno'[s].pc = "idle" /\ rounds' = rounds)
          => /\ balance'[keno[s].user] = balance[keno[s].user] + keno[s].wager
             /\ balance'[HOUSE] = balance[HOUSE] - keno[s].wager]_vars

\* a stake was escrowed, no draw was ever made and the flow is over: it timed
\* out, and the player holds the whole stake again
C23_Witness ==
    /\ stats[PFUser].total_wagered > 0
    /\ rounds = <<>>
    /\ \A s \in Sessions : keno[s].pc = "idle"
    /\ balance[PFUser] + balance[HOUSE] = InitUserBalance + InitHouseBalance
    /\ balance[HOUSE] = InitHouseBalance

\* the step appends a round of the game to the log; its seeds and nonce
NewRound(g, u) ==
    /\ Len(rounds') = Len(rounds) + 1
    /\ rounds'[Len(rounds')].game = g
    /\ rounds'[Len(rounds')].user = u

FreshNonce ==
    LET r == rounds'[Len(rounds')]
    IN \A i \in 1..Len(rounds) :
          (/\ rounds[i].game = r.game
           /\ rounds[i].user = r.user
           /\ rounds[i].server_seed = r.server_seed
           /\ rounds[i].client_seed = r.client_seed)
          => rounds[i].nonce # r.nonce

\* C24: a reroll is a complete new wager: the stake of the last play is taken
\* from the user again (total_wagered grows by it) and the outcome is derived
\* from a nonce that no earlier round under the same seeds has used.
C24_RerollIsFreshWager ==
    [][\A u \in Users :
          /\ (\E ss \in ServerSeeds, cs \in FreshClientSeeds :
                 KenoReroll(1, u, ss, cs) /\ NewRound("keno", u))
             => /\ stats'[u].total_wagered
                     = stats[u].total_wagered + last_play["keno"][u].wager
                /\ FreshNonce
          /\ (\E ss \in ServerSeeds, cs \in FreshClientSeeds :
                 CoinflipReroll(u, ss, cs) /\ NewRound("coinflip", u))
             => /\ stats'[u].total_wagered
                     = stats[u].total_wagered + last_play["coinflip"][u].wager
                /\ FreshNonce]_vars

\* C21: a withdrawal that succeeds while its user has an active loan leaves
\* that loan's withdraw_during_loan flag set.
C21_WithdrawSetsLoanFlag ==
    [][\A wid \in 1..Len(withdrawals) :
          (withdrawals[wid].status # "sent" /\ withdrawals'[wid].status = "sent")
          => \A id \in 1..Len(loans) :
                (loans[id].user_id = withdrawals[wid].user_id /\ loans[id].status = "active")
                => loans'[id].withdraw_during_loan = 1]_vars

C29_LoopsSurvive == poll.pc # "dead"

\* C30: a step in which the "Not enough bot balance" notice of a keno round
\* fails to send still returns the escrowed stake to the player.
C30_SendFailureKeepsRefund ==
    [][\A s \in Sessions :
          KenoRefundNoticeFails(s)
          => balance'[keno[s].user] = balance[keno[s].user] + keno[s].wager]_vars

\* C33: no staged withdrawal row has had more than one transfer sent and
\* debited for it.
C33_OneTransferPerRow ==
    \A wid \in 1..Len(withdrawals) : withdrawals[wid].transfers <= 1

\* C34: in no step is a transfer sent or QC debited for a row that is marked
\* cancelled, and no row marked sent changes its status.
C34_CancelledNeverSent ==
    [][\A wid \in 1..Len(withdrawals) :
          /\ withdrawals[wid].status = "cancelled"
                => /\ withdrawals'[wid].transfers = withdrawals[wid].transfers
                   /\ balance'[withdrawals[wid].user_id] >= balance[withdrawals[wid].user_id]
          /\ withdrawals[wid].status = "sent" => withdrawals'[wid].status = "sent"]_vars

\* C37: the only change to a running game is a mark of the player whose turn
\* it is on one empty cell, after which the turn is the other player's unless
\* the game is over; a game that is over changes only by a new game starting
\* (so every press out of turn, on a taken cell or after the end changes nothing).
C37_MovesInTurnOrder ==
    [][/\ (ttt.open /\ ~ttt.game_over /\ ttt' # ttt)
             => /\ \E pos \in 0..8 :
                      /\ ttt.board[pos] = " "
                      /\ ttt'.board = [ttt.board EXCEPT
                                         ![pos] = IF ttt.turn = ttt.player1_id THEN "X" ELSE "O"]
                /\ ttt.turn \in {ttt.player1_id, ttt.player2_id}
                /\ ttt'.player1_id = ttt.player1_id /\ ttt'.player2_id = ttt.player2_id
                /\ ~ttt'.game_over
                      => /\ ttt'.turn \in {ttt.player1_id, ttt.player2_id}
                         /\ ttt'.turn # ttt.turn
       /\ (ttt.game_over /\ ttt' # ttt)
             => ttt'.board = EmptyBoard /\ ~ttt'.game_over /\ ttt'.winner = "none"]_vars

\* a game in which both players have moved and which is still running
C37_Witness ==
    /\ ttt.open
    /\ ~ttt.game_over
    /\ \E i, j \in 0..8 : ttt.board[i] = "X" /\ ttt.board[j] = "O"

\* three equal marks in a row, a column or a diagonal of the board
ThreeInLine(board, mark) ==
    \/ \E r \in 0..2 : \A c \in 0..2 : board[3 * r + c] = mark
    \/ \E c \in 0..2 : \A r \in 0..2 : board[3 * r + c] = mark
    \/ \A k \in 0..2 : board[4 * k] = mark
    \/ \A k \in 1..3 : board[2 * k] = mark

\* C38: the game is over exactly when a line holds three equal marks or the
\* board is full; with a line the winner owns the mark and moved last, without
\* one there is no winner.
C38_GameOverIffLineOrFull ==
    LET Full == \A i \in 0..8 : ttt.board[i] # " "
    IN /\ ttt.game_over <=> (ThreeInLine(ttt.board, "X") \/ ThreeInLine(ttt.board, "O") \/ Full)
       /\ ThreeInLine(ttt.board, "X") => ttt.winner = ttt.player1_id /\ ttt.turn = ttt.player1_id
       /\ ThreeInLine(ttt.board, "O") => ttt.winner = ttt.player2_id /\ ttt.turn = ttt.player2_id
       /\ ~(ThreeInLine(ttt.board, "X") \/ ThreeInLine(ttt.board, "O")) => ttt.winner = "none"

\* a game won on a diagonal with its last move
C38_Witness ==
    /\ ttt.game_over
    /\ ttt.winner = ttt.player2_id
    /\ \A k \in 0..2 : ttt.board[4 * k] = "O"

\* C36: a loan that becomes active is due no earlier than the time of its
\* approval plus its requested duration.
C36_DueDateFromApproval ==
    [][\A id \in 1..Len(loans) :
          (loans[id].status # "active" /\ loans'[id].status = "active")
          => loans'[id].due_date >= now + loans[id].duration_days]_vars

\* C39: every step of a running battle but its last removes exactly one
\* participant from the living, and the step that ends the run leaves exactly
\* one survivor and a placements list that holds every participant exactly
\* once, the survivor first.
C39_OneSurvivorAllPlaced ==
    [][\A k \in Finalizers :
          (fin[k].pc = "fight" /\ fin'[k] # fin[k])
          => IF fin'[k].pc = "fight"
             THEN /\ Len(fin'[k].alive) = Len(fin[k].alive) - 1
                  /\ Len(fin'[k].eliminated) = Len(fin[k].eliminated) + 1
                  /\ Range(fin'[k].alive) \cup Range(fin'[k].eliminated) = Range(fin[k].players)
             ELSE /\ Len(fin[k].alive) = 1
                  /\ fin'[k].pc = "finished"
                  /\ fin'[k].placements[1] = fin[k].alive[1]
                  /\ Len(fin'[k].placements) = Len(fin[k].players)
                  /\ Range(fin'[k].placements) = Range(fin[k].players)]_vars

\* C40: no sweep of an address is attempted while its backoff delay runs,
\* neither by _drain_one nor by sweep_deposits; each consecutive failure sets
\* the delay to twice the previous one; a successful sweep clears it.
C40_NoSweepDuringBackoff ==
    [][\A u \in Users :
          /\ (\/ drain[u].pc = "idle" /\ drain'[u].pc = "send"
              \/ /\ poll.pc = "sweep_get_balance"
                 /\ UserOrder[poll.sidx] = u
                 /\ poll'.pc = "sweep_send")
                => ~(now < sweep_backoff[u])
          /\ sweep_errors'[u] = sweep_errors[u] + 1
                => sweep_backoff'[u] = now + 2 ^ sweep_errors'[u]
          /\ (drain[u].pc = "send" /\ onchain'[u] < onchain[u])
                => sweep_backoff'[u] = 0 /\ sweep_errors'[u] = 0]_vars

\* C35: no background loop started by on_ready has more than one task.
C35_OneTaskPerLoop ==
    \A l \in {"poll_deposits", "lottery", "sweeper"} : tasks[l] <= 1

AirdropDue(id) ==
    IF id <= Len(airdrops)
    THEN airdrops[id].status = "open" /\ now >= airdrops[id].ends_at
    ELSE FALSE

AirdropClosed(id) == IF id <= Len(airdrops) THEN airdrops[id].status # "open" ELSE FALSE

\* C31: an open lottery or airdrop whose deadline has passed is eventually
\* settled or cancelled.
C31_DuePoolsSettled ==
    /\ (lottery.status = "open" /\ now >= lottery.ends_at) ~> (lottery.status # "open")
    /\ \A id \in 1..MaxAirdrops : AirdropDue(id) ~> AirdropClosed(id)

\* C32: no outcome is derived from a server_seed that has already been sent to
\* its user: in the step that logs a round, the seed of that user's commitment
\* was not disclosed before the step.
C32_OutcomeSeedUndisclosed ==
    [][Len(rounds') > Len(rounds)
          => LET r == rounds'[Len(rounds')]
             IN ~seedShown[r.game][r.user]]_vars

=============================================================================
